---- MODULE Spec2Model ----
(***************************************************************************)
(* Product catalog service: the Product aggregate (lifecycle state         *)
(* machine, change tracker, pending events), the repositories that turn    *)
(* an aggregate into store mutations, the write plan and the committer,    *)
(* and the command use cases running against one transactional store.      *)
(*                                                                         *)
(* Strings are sequences of one-character strings, instants are integers,  *)
(* a rational is a pair of integers, a percentage is a rational.           *)
(***************************************************************************)
EXTENDS Integers, Sequences, FiniteSets, TLC

VARIABLES
  prod,       \* aggregate level: the Product under test (domain.Product)
  lastCall,   \* aggregate level: the last business method call and its error
  calls,      \* aggregate level: number of business method calls made
  products,   \* store: the products table, product_id -> row
  outbox,     \* store: the outbox_events table, rows in commit order
  landed,     \* store: <<command, table>> for every mutation that is visible
  inflight,   \* command invocations that built their plan and await Apply
  results,    \* command number -> what the finished invocation returned
  issued,     \* number of command invocations started so far
  planMutations, \* plan level: Plan.mutations of the Plan under test
  log,        \* plan level: every argument added since the last Clear
  valueArgs,  \* value level: the arguments the value-object calls are made with
  valueResult \* value level: the last Money or Discount call and what it returned

aggVars == <<prod, lastCall, calls>>
storeVars == <<products, outbox, landed, inflight, results, issued>>
planVars == <<planMutations, log>>
valueVars == <<valueArgs, valueResult>>
vars == <<prod, lastCall, calls, products, outbox, landed, inflight, results, issued, planMutations, log, valueArgs, valueResult>>

----------------------------------------------------------------------------
(* Bounds *)

MaxTime == 2        \* instants are 0..MaxTime
MaxCalls == 2       \* business method calls per aggregate run
MaxCmds == 3        \* command invocations per store run
MaxSeededCmds == 2  \* command invocations per run from a seeded store
MaxWorkers == 2     \* command invocations in flight at once
MaxPlan == 3        \* arguments added to a plan between two Clear calls
MaxApplies == 2     \* Committer.Apply calls per plan run

Times == 0..MaxTime

----------------------------------------------------------------------------
(* Strings *)

RECURSIVE TrimLeft(_)
TrimLeft(s) == IF s # <<>> /\ Head(s) = " " THEN TrimLeft(Tail(s)) ELSE s

RECURSIVE TrimRight(_)
TrimRight(s) ==
  IF s # <<>> /\ s[Len(s)] = " " THEN TrimRight(SubSeq(s, 1, Len(s) - 1)) ELSE s

TrimSpace(s) == TrimRight(TrimLeft(s))

----------------------------------------------------------------------------
(* Rationals and Money *)

Abs(n) == IF n < 0 THEN -n ELSE n

RECURSIVE Gcd(_, _)
Gcd(a, b) == IF b = 0 THEN a ELSE Gcd(b, a % b)

\* big.NewRat(a, b): the reduced fraction with a positive denominator
NewRat(a, b) ==
  LET g == Gcd(Abs(a), Abs(b))
      s == IF b < 0 THEN -1 ELSE 1
  IN  [num |-> (s * a) \div g, den |-> (s * b) \div g]

\* the sign of the denominator dropped
NewMoney_AbsDenominator(numerator, denominator) ==
  NewRat(numerator, IF denominator = 0 THEN 1 ELSE Abs(denominator))

NewMoney(numerator, denominator) ==
  NewRat(numerator, IF denominator = 0 THEN 1 ELSE denominator)

\* a nil *big.Rat; no rational has the denominator 0
NilRat == [num |-> 0, den |-> 0]

Zero == NewRat(0, 1)

\* zero counted as positive
IsPositive_NonNegative(m) == m.num >= 0

IsPositive(m) == m.num > 0

\* new(big.Rat).Sub, Mul and Quo (y nonzero), results in lowest terms
RatSub(x, y) == NewRat(x.num * y.den - y.num * x.den, x.den * y.den)

RatMul(x, y) == NewRat(x.num * y.num, x.den * y.den)

RatQuo(x, y) == NewRat(x.num * y.den, x.den * y.num)

Sub(m, other) == RatSub(m, other)

Multiply(m, factor) == IF factor = NilRat THEN m ELSE RatMul(m, factor)

\* amount * (percentage / 100)
CalculatePercentage(m, percentage) ==
  IF percentage = NilRat THEN Zero
  ELSE Multiply(m, RatQuo(percentage, NewRat(100, 1)))

\* the discounted amount cut to a whole number of units
MoneyApplyDiscount_WholeUnits(m, percentage) ==
  IF percentage = NilRat THEN m
  ELSE LET r == Sub(m, CalculatePercentage(m, percentage))
       IN  NewRat(r.num \div r.den, 1)

\* Money.ApplyDiscount
MoneyApplyDiscount(m, percentage) ==
  IF percentage = NilRat THEN m
  ELSE Sub(m, CalculatePercentage(m, percentage))

\* big.Rat.Cmp of the two amounts, both with positive denominators
Equals(m, other) == m.num * other.den = other.num * m.den

----------------------------------------------------------------------------
(* Discount *)

NoTime == -1

NoDiscount == [present |-> FALSE, percentage |-> NewRat(0, 1),
               startDate |-> NoTime, endDate |-> NoTime]

\* r1 compared with r2, both with positive denominators: -1, 0 or 1
RatCmp(r1, r2) ==
  LET l == r1.num * r2.den
      r == r2.num * r1.den
  IN  IF l < r THEN -1 ELSE IF l > r THEN 1 ELSE 0

\* the period checked before the percentage
NewDiscount_PeriodFirst(hasPct, percentage, startDate, endDate) ==
  IF ~(endDate > startDate)
    THEN [d |-> NoDiscount, err |-> "ErrInvalidDiscountPeriod"]
  ELSE IF ~hasPct \/ RatCmp(percentage, NewRat(0, 1)) <= 0
            \/ RatCmp(percentage, NewRat(100, 1)) > 0
    THEN [d |-> NoDiscount, err |-> "ErrInvalidDiscountPercentage"]
  ELSE [d |-> [present |-> TRUE, percentage |-> percentage,
               startDate |-> startDate, endDate |-> endDate],
        err |-> "nil"]

\* percentage = NoDiscount.percentage with hasPct = FALSE stands for nil
NewDiscount(hasPct, percentage, startDate, endDate) ==
  IF ~hasPct THEN [d |-> NoDiscount, err |-> "ErrInvalidDiscountPercentage"]
  ELSE IF RatCmp(percentage, NewRat(0, 1)) <= 0
    THEN [d |-> NoDiscount, err |-> "ErrInvalidDiscountPercentage"]
  ELSE IF RatCmp(percentage, NewRat(100, 1)) > 0
    THEN [d |-> NoDiscount, err |-> "ErrInvalidDiscountPercentage"]
  ELSE IF ~(endDate > startDate)
    THEN [d |-> NoDiscount, err |-> "ErrInvalidDiscountPeriod"]
  ELSE [d |-> [present |-> TRUE, percentage |-> percentage,
               startDate |-> startDate, endDate |-> endDate],
        err |-> "nil"]

\* the end date counted as part of the period
IsValidAt_EndInclusive(d, t) == d.present /\ ~(t < d.startDate) /\ ~(t > d.endDate)

\* the start date not counted as part of the period
IsValidAt_StartExclusive(d, t) == d.present /\ t > d.startDate /\ t < d.endDate

IsValidAt(d, t) == d.present /\ ~(t < d.startDate) /\ t < d.endDate

IsActive(d, t) == IsValidAt(d, t)

\* expired only once the end date has passed
IsExpired_AfterEnd(d, t) == IF ~d.present THEN TRUE ELSE t > d.endDate

IsExpired(d, t) == IF ~d.present THEN TRUE ELSE ~(t < d.endDate)

\* the percentage added to the price
ApplyTo_Surcharge(d, price) ==
  IF ~d.present THEN price
  ELSE RatSub(price, CalculatePercentage(price, NewRat(-d.percentage.num, d.percentage.den)))

ApplyTo(d, price) == IF ~d.present THEN price ELSE MoneyApplyDiscount(price, d.percentage)

----------------------------------------------------------------------------
(* ChangeTracker: the set of fields whose dirty flag is set *)

FieldName == "name"
FieldDescription == "description"
FieldCategory == "category"
FieldBasePrice == "base_price"
FieldDiscount == "discount"
FieldStatus == "status"

NewChangeTracker == {}

MarkDirty(ct, field) == ct \cup {field}

MarkAllDirty(ct, fields) == ct \cup fields

HasChanges(ct) == ct # {}

Dirty(ct, field) == field \in ct

----------------------------------------------------------------------------
(* ProductStatus *)

ProductStatusDraft == "draft"
ProductStatusActive == "active"
ProductStatusInactive == "inactive"
ProductStatusArchived == "archived"

Statuses == {ProductStatusDraft, ProductStatusActive,
             ProductStatusInactive, ProductStatusArchived}

CanActivate_DraftOnly(s) == s = ProductStatusDraft

CanActivate(s) == s = ProductStatusDraft \/ s = ProductStatusInactive

CanDeactivate(s) == s = ProductStatusActive

----------------------------------------------------------------------------
(* Domain events *)

\* the event built without its instant (the zero time)
NewProductCreatedEvent_NoTimestamp(productID, name, description, category, basePrice, occurredAt) ==
  [type |-> "product.created", aggregateID |-> productID,
   occurredAt |-> NoTime, name |-> name, description |-> description,
   category |-> category, basePrice |-> basePrice]

NewProductCreatedEvent(productID, name, description, category, basePrice, occurredAt) ==
  [type |-> "product.created", aggregateID |-> productID,
   occurredAt |-> occurredAt, name |-> name, description |-> description,
   category |-> category, basePrice |-> basePrice]

NewProductUpdatedEvent(productID, name, description, category, occurredAt) ==
  [type |-> "product.updated", aggregateID |-> productID,
   occurredAt |-> occurredAt, name |-> name, description |-> description,
   category |-> category]

NewProductActivatedEvent(productID, occurredAt) ==
  [type |-> "product.activated", aggregateID |-> productID,
   occurredAt |-> occurredAt]

NewProductDeactivatedEvent(productID, occurredAt) ==
  [type |-> "product.deactivated", aggregateID |-> productID,
   occurredAt |-> occurredAt]

NewProductArchivedEvent(productID, occurredAt) ==
  [type |-> "product.archived", aggregateID |-> productID,
   occurredAt |-> occurredAt]

NewDiscountAppliedEvent(productID, percentage, startDate, endDate, occurredAt) ==
  [type |-> "product.discount_applied", aggregateID |-> productID,
   occurredAt |-> occurredAt, discountPercentage |-> percentage,
   startDate |-> startDate, endDate |-> endDate]

NewDiscountRemovedEvent(productID, occurredAt) ==
  [type |-> "product.discount_removed", aggregateID |-> productID,
   occurredAt |-> occurredAt]

----------------------------------------------------------------------------
(* Product aggregate.  Every method yields [p |-> the product after the    *)
(* call, err |-> the error returned].                                      *)

NoProduct ==
  [id |-> <<>>, name |-> <<>>, description |-> <<>>, category |-> <<>>,
   basePrice |-> NewRat(0, 1), discount |-> NoDiscount,
   status |-> "", createdAt |-> NoTime, updatedAt |-> NoTime,
   archivedAt |-> NoTime, changes |-> {}, events |-> <<>>]

\* hasPrice = FALSE stands for a nil basePrice
NewProduct(id, name, description, category, hasPrice, basePrice, now) ==
  IF TrimSpace(id) = <<>> THEN [p |-> NoProduct, err |-> "ErrInvalidID"]
  ELSE IF TrimSpace(name) = <<>>
    THEN [p |-> NoProduct, err |-> "ErrInvalidProductName"]
  ELSE IF TrimSpace(category) = <<>>
    THEN [p |-> NoProduct, err |-> "ErrInvalidProductCategory"]
  ELSE IF ~hasPrice \/ ~IsPositive(basePrice)
    THEN [p |-> NoProduct, err |-> "ErrInvalidBasePrice"]
  ELSE
    [p |-> [id |-> id,
            name |-> TrimSpace(name),
            description |-> TrimSpace(description),
            category |-> TrimSpace(category),
            basePrice |-> basePrice,
            discount |-> NoDiscount,
            status |-> ProductStatusDraft,
            createdAt |-> now,
            updatedAt |-> now,
            archivedAt |-> NoTime,
            changes |-> MarkAllDirty(NewChangeTracker,
                          {FieldName, FieldDescription, FieldCategory,
                           FieldBasePrice, FieldStatus}),
            events |-> <<NewProductCreatedEvent(id, TrimSpace(name),
                           TrimSpace(description), TrimSpace(category),
                           basePrice, now)>>],
     err |-> "nil"]

\* the name trimmed as NewProduct trims it
ReconstructProduct_TrimsName(id, name, description, category, basePrice, discount, status, createdAt, updatedAt, archivedAt) ==
  [id |-> id, name |-> TrimSpace(name), description |-> description,
   category |-> category, basePrice |-> basePrice, discount |-> discount,
   status |-> status, createdAt |-> createdAt, updatedAt |-> updatedAt,
   archivedAt |-> archivedAt, changes |-> NewChangeTracker, events |-> <<>>]

ReconstructProduct(id, name, description, category, basePrice, discount, status, createdAt, updatedAt, archivedAt) ==
  [id |-> id, name |-> name, description |-> description,
   category |-> category, basePrice |-> basePrice, discount |-> discount,
   status |-> status, createdAt |-> createdAt, updatedAt |-> updatedAt,
   archivedAt |-> archivedAt, changes |-> NewChangeTracker, events |-> <<>>]

\* the body of Update once its guards have passed
UpdateFields_AlwaysEmits(p, name, description, category, now) ==
  [p |-> [p EXCEPT !.name = TrimSpace(name),
                   !.description = TrimSpace(description),
                   !.category = TrimSpace(category),
                   !.updatedAt = now,
                   !.changes = @ \cup {FieldName, FieldDescription, FieldCategory},
                   !.events = Append(@, NewProductUpdatedEvent(p.id,
                       TrimSpace(name), TrimSpace(description),
                       TrimSpace(category), now))],
   err |-> "nil"]

\* all three fields marked dirty as soon as one of them changes
UpdateFields_MarksAllDirty(p, name, description, category, now) ==
  LET r == UpdateFields_AlwaysEmits(p, name, description, category, now)
  IN  IF /\ p.name = TrimSpace(name)
         /\ p.description = TrimSpace(description)
         /\ p.category = TrimSpace(category)
      THEN [p |-> p, err |-> "nil"]
      ELSE r

UpdateFields(p, name, description, category, now) ==
  LET newName == TrimSpace(name)
      newDescription == TrimSpace(description)
      newCategory == TrimSpace(category)
      p1 == IF p.name # newName
              THEN [p EXCEPT !.name = newName,
                             !.changes = MarkDirty(@, FieldName)]
              ELSE p
      p2 == IF p1.description # newDescription
              THEN [p1 EXCEPT !.description = newDescription,
                              !.changes = MarkDirty(@, FieldDescription)]
              ELSE p1
      p3 == IF p2.category # newCategory
              THEN [p2 EXCEPT !.category = newCategory,
                              !.changes = MarkDirty(@, FieldCategory)]
              ELSE p2
      hasChanges == p.name # newName \/ p.description # newDescription
                      \/ p.category # newCategory
  IN  [p |-> IF hasChanges
               THEN [p3 EXCEPT !.updatedAt = now,
                               !.events = Append(@, NewProductUpdatedEvent(
                                  p3.id, p3.name, p3.description,
                                  p3.category, now))]
               ELSE p3,
       err |-> "nil"]

Update_NoArchivedGuard(p, name, description, category, now) ==
  IF TrimSpace(name) = <<>> THEN [p |-> p, err |-> "ErrInvalidProductName"]
  ELSE IF TrimSpace(category) = <<>>
    THEN [p |-> p, err |-> "ErrInvalidProductCategory"]
  ELSE UpdateFields(p, name, description, category, now)

Update_LateCategoryCheck(p, name, description, category, now) ==
  IF p.status = ProductStatusArchived THEN [p |-> p, err |-> "ErrProductArchived"]
  ELSE IF TrimSpace(name) = <<>> THEN [p |-> p, err |-> "ErrInvalidProductName"]
  ELSE IF TrimSpace(category) = <<>>
    THEN [p |-> UpdateFields(p, name, description, p.category, now).p,
          err |-> "ErrInvalidProductCategory"]
  ELSE UpdateFields(p, name, description, category, now)

Update(p, name, description, category, now) ==
  IF p.status = ProductStatusArchived THEN [p |-> p, err |-> "ErrProductArchived"]
  ELSE IF TrimSpace(name) = <<>> THEN [p |-> p, err |-> "ErrInvalidProductName"]
  ELSE IF TrimSpace(category) = <<>>
    THEN [p |-> p, err |-> "ErrInvalidProductCategory"]
  ELSE UpdateFields(p, name, description, category, now)

\* the status changed without a dirty mark
Activate_NoDirtyMark(p, now) ==
  IF p.status = ProductStatusArchived THEN [p |-> p, err |-> "ErrProductArchived"]
  ELSE IF p.status = ProductStatusActive
    THEN [p |-> p, err |-> "ErrProductAlreadyActive"]
  ELSE IF ~CanActivate(p.status) THEN [p |-> p, err |-> "ErrProductNotActive"]
  ELSE [p |-> [p EXCEPT !.status = ProductStatusActive,
                        !.updatedAt = now,
                        !.events = Append(@, NewProductActivatedEvent(p.id, now))],
        err |-> "nil"]

Activate(p, now) ==
  IF p.status = ProductStatusArchived THEN [p |-> p, err |-> "ErrProductArchived"]
  ELSE IF p.status = ProductStatusActive
    THEN [p |-> p, err |-> "ErrProductAlreadyActive"]
  ELSE IF ~CanActivate(p.status) THEN [p |-> p, err |-> "ErrProductNotActive"]
  ELSE [p |-> [p EXCEPT !.status = ProductStatusActive,
                        !.updatedAt = now,
                        !.changes = MarkDirty(@, FieldStatus),
                        !.events = Append(@, NewProductActivatedEvent(p.id, now))],
        err |-> "nil"]

\* the discount dropped with the deactivation
Deactivate_ClearsDiscount(p, now) ==
  IF p.status = ProductStatusArchived THEN [p |-> p, err |-> "ErrProductArchived"]
  ELSE IF p.status = ProductStatusInactive
    THEN [p |-> p, err |-> "ErrProductAlreadyInactive"]
  ELSE IF ~CanDeactivate(p.status) THEN [p |-> p, err |-> "ErrProductNotActive"]
  ELSE [p |-> [p EXCEPT !.status = ProductStatusInactive,
                        !.discount = NoDiscount,
                        !.updatedAt = now,
                        !.changes = MarkDirty(@, FieldStatus),
                        !.events = Append(@, NewProductDeactivatedEvent(p.id, now))],
        err |-> "nil"]

\* updatedAt left as it was
Deactivate_KeepsUpdatedAt(p, now) ==
  IF p.status = ProductStatusArchived THEN [p |-> p, err |-> "ErrProductArchived"]
  ELSE IF p.status = ProductStatusInactive
    THEN [p |-> p, err |-> "ErrProductAlreadyInactive"]
  ELSE IF ~CanDeactivate(p.status) THEN [p |-> p, err |-> "ErrProductNotActive"]
  ELSE [p |-> [p EXCEPT !.status = ProductStatusInactive,
                        !.changes = MarkDirty(@, FieldStatus),
                        !.events = Append(@, NewProductDeactivatedEvent(p.id, now))],
        err |-> "nil"]

Deactivate_NoInactiveCheck(p, now) ==
  IF p.status = ProductStatusArchived THEN [p |-> p, err |-> "ErrProductArchived"]
  ELSE IF ~CanDeactivate(p.status) THEN [p |-> p, err |-> "ErrProductNotActive"]
  ELSE [p |-> [p EXCEPT !.status = ProductStatusInactive,
                        !.updatedAt = now,
                        !.changes = MarkDirty(@, FieldStatus),
                        !.events = Append(@, NewProductDeactivatedEvent(p.id, now))],
        err |-> "nil"]

Deactivate(p, now) ==
  IF p.status = ProductStatusArchived THEN [p |-> p, err |-> "ErrProductArchived"]
  ELSE IF p.status = ProductStatusInactive
    THEN [p |-> p, err |-> "ErrProductAlreadyInactive"]
  ELSE IF ~CanDeactivate(p.status) THEN [p |-> p, err |-> "ErrProductNotActive"]
  ELSE [p |-> [p EXCEPT !.status = ProductStatusInactive,
                        !.updatedAt = now,
                        !.changes = MarkDirty(@, FieldStatus),
                        !.events = Append(@, NewProductDeactivatedEvent(p.id, now))],
        err |-> "nil"]

\* the Archived event put at the head of the queue
Archive_PrependsEvent(p, now) ==
  IF p.status = ProductStatusArchived THEN [p |-> p, err |-> "ErrProductArchived"]
  ELSE [p |-> [p EXCEPT !.status = ProductStatusArchived,
                        !.archivedAt = now,
                        !.updatedAt = now,
                        !.changes = MarkDirty(@, FieldStatus),
                        !.events = <<NewProductArchivedEvent(p.id, now)>> \o @],
        err |-> "nil"]

Archive_KeepsArchivedAt(p, now) ==
  IF p.status = ProductStatusArchived THEN [p |-> p, err |-> "ErrProductArchived"]
  ELSE [p |-> [p EXCEPT !.status = ProductStatusArchived,
                        !.updatedAt = now,
                        !.changes = MarkDirty(@, FieldStatus),
                        !.events = Append(@, NewProductArchivedEvent(p.id, now))],
        err |-> "nil"]

Archive(p, now) ==
  IF p.status = ProductStatusArchived THEN [p |-> p, err |-> "ErrProductArchived"]
  ELSE [p |-> [p EXCEPT !.status = ProductStatusArchived,
                        !.archivedAt = now,
                        !.updatedAt = now,
                        !.changes = MarkDirty(@, FieldStatus),
                        !.events = Append(@, NewProductArchivedEvent(p.id, now))],
        err |-> "nil"]

\* discount = NoDiscount stands for a nil *Discount
ApplyDiscount_KeepsExisting(p, discount, now) ==
  IF p.status # ProductStatusActive THEN [p |-> p, err |-> "ErrProductNotActive"]
  ELSE IF ~discount.present
    THEN [p |-> p, err |-> "ErrInvalidDiscountPercentage"]
  ELSE IF IsExpired(discount, now)
    THEN [p |-> p, err |-> "ErrInvalidDiscountPeriod"]
  ELSE [p |-> [p EXCEPT !.discount = IF @.present THEN @ ELSE discount,
                        !.updatedAt = now,
                        !.changes = MarkDirty(@, FieldDiscount),
                        !.events = Append(@, NewDiscountAppliedEvent(p.id,
                            discount.percentage, discount.startDate,
                            discount.endDate, now))],
        err |-> "nil"]

ApplyDiscount(p, discount, now) ==
  IF p.status # ProductStatusActive THEN [p |-> p, err |-> "ErrProductNotActive"]
  ELSE IF p.status = ProductStatusArchived
    THEN [p |-> p, err |-> "ErrProductArchived"]
  ELSE IF ~discount.present
    THEN [p |-> p, err |-> "ErrInvalidDiscountPercentage"]
  ELSE IF IsExpired(discount, now)
    THEN [p |-> p, err |-> "ErrInvalidDiscountPeriod"]
  ELSE [p |-> [p EXCEPT !.discount = discount,
                        !.updatedAt = now,
                        !.changes = MarkDirty(@, FieldDiscount),
                        !.events = Append(@, NewDiscountAppliedEvent(p.id,
                            discount.percentage, discount.startDate,
                            discount.endDate, now))],
        err |-> "nil"]

\* the discount presence check placed before the archived check
RemoveDiscount_DiscountCheckFirst(p, now) ==
  IF ~p.discount.present THEN [p |-> p, err |-> "ErrNoDiscountToRemove"]
  ELSE IF p.status = ProductStatusArchived
    THEN [p |-> p, err |-> "ErrProductArchived"]
  ELSE [p |-> [p EXCEPT !.discount = NoDiscount,
                        !.updatedAt = now,
                        !.changes = MarkDirty(@, FieldDiscount),
                        !.events = Append(@, NewDiscountRemovedEvent(p.id, now))],
        err |-> "nil"]

\* removal allowed on an Active product only, as ApplyDiscount is
RemoveDiscount_ActiveOnly(p, now) ==
  IF p.status = ProductStatusArchived THEN [p |-> p, err |-> "ErrProductArchived"]
  ELSE IF p.status # ProductStatusActive
    THEN [p |-> p, err |-> "ErrProductNotActive"]
  ELSE IF ~p.discount.present THEN [p |-> p, err |-> "ErrNoDiscountToRemove"]
  ELSE [p |-> [p EXCEPT !.discount = NoDiscount,
                        !.updatedAt = now,
                        !.changes = MarkDirty(@, FieldDiscount),
                        !.events = Append(@, NewDiscountRemovedEvent(p.id, now))],
        err |-> "nil"]

RemoveDiscount(p, now) ==
  IF p.status = ProductStatusArchived THEN [p |-> p, err |-> "ErrProductArchived"]
  ELSE IF ~p.discount.present THEN [p |-> p, err |-> "ErrNoDiscountToRemove"]
  ELSE [p |-> [p EXCEPT !.discount = NoDiscount,
                        !.updatedAt = now,
                        !.changes = MarkDirty(@, FieldDiscount),
                        !.events = Append(@, NewDiscountRemovedEvent(p.id, now))],
        err |-> "nil"]

EffectivePrice(p, now) ==
  IF p.discount.present /\ IsActive(p.discount, now)
  THEN ApplyTo(p.discount, p.basePrice)
  ELSE p.basePrice

----------------------------------------------------------------------------
(* Aggregate-level runs: one Product, built by NewProduct or rebuilt by    *)
(* ReconstructProduct from a row the service can have stored, then driven  *)
(* through business method calls with inputs from small sets.              *)

Id1 == <<"1">>

PriceInputs == {NewMoney(10000, 100), NewMoney(1999, 100)}

\* *Discount values: only NewDiscount builds one
DiscountInputs ==
  { NewDiscount(TRUE, NewRat(20, 1), 0, 2).d,
    NewDiscount(TRUE, NewRat(25, 2), 1, 2).d,
    NewDiscount(TRUE, NewRat(100, 1), 0, 1).d }

\* rows of the products table the service can have written, as the
\* arguments dataToDomain passes to ReconstructProduct
StoredProducts ==
  { x \in { ReconstructProduct(Id1, <<"a">>, <<"d">>, <<"c">>,
                               NewMoney(10000, 100), d, st, 0, 0, at) :
              d \in {NoDiscount, NewDiscount(TRUE, NewRat(20, 1), 0, 2).d},
              st \in Statuses,
              at \in {NoTime, 0} } :
      x.status = ProductStatusArchived => x.archivedAt # NoTime }

CreatedProducts ==
  { r.p : r \in { x \in { NewProduct(Id1, <<" ", "a">>, desc, <<"c">>, TRUE, price, now) :
                            desc \in {<<>>, <<"d", " ">>},
                            price \in PriceInputs,
                            now \in Times } : x.err = "nil" } }

NoCall == [op |-> "none", id |-> <<>>, name |-> <<>>, description |-> <<>>,
           category |-> <<>>, hasPrice |-> FALSE, price |-> NewRat(0, 1),
           discount |-> NoDiscount, now |-> NoTime, err |-> "nil"]

\* (name, description, category) arguments tried against product p
UpdateInputs(p) ==
  { <<p.name, p.description, p.category>>,
    <<<<" ">> \o p.name \o <<" ">>, p.description, p.category>>,
    <<<<"b">>, p.description, p.category>>,
    <<<<"b">>, <<"e">>, p.category>>,
    <<p.name, <<"e">>, p.category>>,
    <<p.name, p.description, <<"k", " ">>>>,
    <<<<" ">>, p.description, p.category>>,
    <<<<"b">>, p.description, <<>>>> }

PlanInitial ==
  /\ planMutations = <<>>
  /\ log = <<>>

\* no value-object call made, none to make
NoArgs == [kind |-> "none"]
NoResult == [op |-> "none"]

ValueInitial ==
  /\ valueArgs = NoArgs
  /\ valueResult = NoResult

StoreInitial ==
  /\ products = <<>>
  /\ outbox = <<>>
  /\ landed = {}
  /\ inflight = {}
  /\ results = <<>>
  /\ issued = 0

\* the arguments of NewProduct: id, name, description, category, whether
\* basePrice is non-nil, basePrice
NewProductInputs ==
  {<<Id1>>, <<<<" ">>>>, <<<<>>>>}
    \X {<<" ", "a">>, <<" ">>}
    \X {<<"d", " ">>}
    \X {<<"c">>, <<>>}
    \X ({<<TRUE, m>> : m \in PriceInputs \cup {NewMoney(0, 100), NewMoney(-1, 100)}}
          \cup {<<FALSE, NewRat(0, 1)>>})

AggInit ==
  /\ prod \in CreatedProducts \cup StoredProducts \cup {NoProduct}
  /\ lastCall = NoCall
  /\ calls = 0
  /\ StoreInitial
  /\ PlanInitial
  /\ ValueInitial

\* the constructor call of a run that starts without a product
CallNewProduct ==
  /\ prod = NoProduct
  /\ lastCall = NoCall
  /\ \E in \in NewProductInputs, now \in Times :
       LET r == NewProduct(in[1][1], in[2], in[3], in[4], in[5][1], in[5][2], now)
       IN  /\ prod' = r.p
           /\ lastCall' = [NoCall EXCEPT !.op = "NewProduct", !.id = in[1][1],
                             !.name = in[2], !.description = in[3],
                             !.category = in[4], !.hasPrice = in[5][1],
                             !.price = in[5][2], !.now = now, !.err = r.err]
  /\ UNCHANGED calls
  /\ UNCHANGED <<storeVars, planVars, valueVars>>

CallUpdate ==
  /\ prod # NoProduct
  /\ calls < MaxCalls
  /\ \E in \in UpdateInputs(prod), now \in Times :
       LET r == Update(prod, in[1], in[2], in[3], now)
       IN  /\ prod' = r.p
           /\ lastCall' = [NoCall EXCEPT !.op = "Update", !.name = in[1],
                             !.description = in[2], !.category = in[3],
                             !.now = now, !.err = r.err]
  /\ calls' = calls + 1
  /\ UNCHANGED <<storeVars, planVars, valueVars>>

CallActivate ==
  /\ prod # NoProduct
  /\ calls < MaxCalls
  /\ \E now \in Times :
       LET r == Activate(prod, now)
       IN  /\ prod' = r.p
           /\ lastCall' = [NoCall EXCEPT !.op = "Activate", !.now = now,
                                         !.err = r.err]
  /\ calls' = calls + 1
  /\ UNCHANGED <<storeVars, planVars, valueVars>>

CallDeactivate ==
  /\ prod # NoProduct
  /\ calls < MaxCalls
  /\ \E now \in Times :
       LET r == Deactivate(prod, now)
       IN  /\ prod' = r.p
           /\ lastCall' = [NoCall EXCEPT !.op = "Deactivate", !.now = now,
                                         !.err = r.err]
  /\ calls' = calls + 1
  /\ UNCHANGED <<storeVars, planVars, valueVars>>

CallArchive ==
  /\ prod # NoProduct
  /\ calls < MaxCalls
  /\ \E now \in Times :
       LET r == Archive(prod, now)
       IN  /\ prod' = r.p
           /\ lastCall' = [NoCall EXCEPT !.op = "Archive", !.now = now,
                                         !.err = r.err]
  /\ calls' = calls + 1
  /\ UNCHANGED <<storeVars, planVars, valueVars>>

CallApplyDiscount ==
  /\ prod # NoProduct
  /\ calls < MaxCalls
  /\ \E d \in DiscountInputs \cup {NoDiscount}, now \in Times :
       LET r == ApplyDiscount(prod, d, now)
       IN  /\ prod' = r.p
           /\ lastCall' = [NoCall EXCEPT !.op = "ApplyDiscount",
                             !.discount = d, !.now = now, !.err = r.err]
  /\ calls' = calls + 1
  /\ UNCHANGED <<storeVars, planVars, valueVars>>

CallRemoveDiscount ==
  /\ prod # NoProduct
  /\ calls < MaxCalls
  /\ \E now \in Times :
       LET r == RemoveDiscount(prod, now)
       IN  /\ prod' = r.p
           /\ lastCall' = [NoCall EXCEPT !.op = "RemoveDiscount", !.now = now,
                                         !.err = r.err]
  /\ calls' = calls + 1
  /\ UNCHANGED <<storeVars, planVars, valueVars>>

AggNext ==
  \/ CallNewProduct
  \/ CallUpdate
  \/ CallActivate
  \/ CallDeactivate
  \/ CallArchive
  \/ CallApplyDiscount
  \/ CallRemoveDiscount

AggSpec == AggInit /\ [][AggNext]_vars

----------------------------------------------------------------------------
(* Persistence: rows, mutations, the two repositories *)

ProductsTable == "products"
OutboxTable == "outbox_events"
StatusPending == "pending"

NoMutation == [table |-> "nil"]

\* int64(x) of a rational x: truncation towards zero
Trunc(r) == IF r.num >= 0 THEN r.num \div r.den ELSE -((-r.num) \div r.den)

NullNumeric == [valid |-> FALSE, numeric |-> NewRat(0, 1)]

\* the discount_percent column: big.NewRat(int64(pct*100), 100)
DiscountPercentColumn(discount) ==
  [valid |-> TRUE,
   numeric |-> NewRat(Trunc(NewRat(discount.percentage.num * 100,
                                   discount.percentage.den)), 100)]

ProductToData(product) ==
  [product_id |-> product.id,
   name |-> product.name,
   description |-> product.description,
   category |-> product.category,
   base_price_numerator |-> product.basePrice.num,
   base_price_denominator |-> product.basePrice.den,
   discount_percent |-> IF product.discount.present
                          THEN DiscountPercentColumn(product.discount)
                          ELSE NullNumeric,
   discount_start_date |-> IF product.discount.present
                             THEN product.discount.startDate ELSE NoTime,
   discount_end_date |-> IF product.discount.present
                           THEN product.discount.endDate ELSE NoTime,
   status |-> product.status,
   created_at |-> product.createdAt,
   updated_at |-> product.updatedAt,
   archived_at |-> product.archivedAt]

InsertMut(product) ==
  [table |-> ProductsTable, op |-> "insert", cols |-> ProductToData(product)]

ModelUpdateMut(productID, updates) ==
  IF DOMAIN updates = {} THEN NoMutation
  ELSE [table |-> ProductsTable, op |-> "update",
        cols |-> updates @@ [product_id |-> productID]]

\* the columns UpdateMut puts in its updates map, before updated_at
DirtyColumns(product) ==
  (IF Dirty(product.changes, FieldName) THEN {"name"} ELSE {})
  \cup (IF Dirty(product.changes, FieldDescription) THEN {"description"} ELSE {})
  \cup (IF Dirty(product.changes, FieldCategory) THEN {"category"} ELSE {})
  \cup (IF Dirty(product.changes, FieldBasePrice)
          THEN {"base_price_numerator", "base_price_denominator"} ELSE {})
  \cup (IF Dirty(product.changes, FieldDiscount)
          THEN {"discount_percent", "discount_start_date", "discount_end_date"}
          ELSE {})
  \cup (IF Dirty(product.changes, FieldStatus)
          THEN {"status"} \cup
               (IF product.status = ProductStatusArchived
                     /\ product.archivedAt # NoTime
                  THEN {"archived_at"} ELSE {})
          ELSE {})

\* every column written as soon as one field is dirty
UpdateMut_FullRow(product) ==
  IF ~HasChanges(product.changes) THEN NoMutation
  ELSE ModelUpdateMut(product.id,
         [c \in DOMAIN ProductToData(product) \ {"product_id"} |->
            ProductToData(product)[c]])

UpdateMut(product) ==
  IF ~HasChanges(product.changes) THEN NoMutation
  ELSE IF DirtyColumns(product) = {} THEN NoMutation
  ELSE ModelUpdateMut(product.id,
         [c \in DirtyColumns(product) \cup {"updated_at"} |->
            ProductToData(product)[c]])

ArchiveMut(product) ==
  ModelUpdateMut(product.id,
    [c \in {"status", "updated_at"} \cup
           (IF product.archivedAt # NoTime THEN {"archived_at"} ELSE {}) |->
       ProductToData(product)[c]])

DataToDomain(data) ==
  LET basePrice == NewMoney(data.base_price_numerator, data.base_price_denominator)
      made == NewDiscount(TRUE, NewRat(Trunc(data.discount_percent.numeric), 1),
                          data.discount_start_date, data.discount_end_date)
      discount ==
        IF data.discount_percent.valid /\ data.discount_start_date # NoTime
             /\ data.discount_end_date # NoTime /\ made.err = "nil"
        THEN made.d ELSE NoDiscount
  IN  ReconstructProduct(data.product_id, data.name, data.description,
                         data.category, basePrice, discount, data.status,
                         data.created_at, data.updated_at, data.archived_at)

FindByID(table, id) ==
  IF id \notin DOMAIN table THEN [p |-> NoProduct, err |-> "ErrProductNotFound"]
  ELSE [p |-> DataToDomain(table[id]), err |-> "nil"]

\* The read path: it reads the products row and never builds the aggregate.
NoDTO == [none |-> TRUE]

\* the row as a DTO at instant at; DiscountPercent is the column's value as
\* a float64 (the two-decimal values of the column below 2^53 convert and
\* truncate as the rational does), and the effective price is computed from
\* int64(DiscountPercent), the percentage cut to a whole number
RowToDTO(row, at) ==
  LET hasAll == /\ row.discount_percent.valid
                /\ row.discount_start_date # NoTime
                /\ row.discount_end_date # NoTime
      active == /\ hasAll
                /\ ~(at < row.discount_start_date)
                /\ at < row.discount_end_date
      basePrice == NewMoney(row.base_price_numerator, row.base_price_denominator)
      discountPct == NewRat(Trunc(row.discount_percent.numeric), 1)
      effectivePrice == MoneyApplyDiscount(basePrice, discountPct)
  IN  [ID |-> row.product_id,
       Name |-> row.name,
       Description |-> row.description,
       Category |-> row.category,
       BasePriceNum |-> row.base_price_numerator,
       BasePriceDenom |-> row.base_price_denominator,
       DiscountPercent |-> row.discount_percent,
       DiscountStartDate |-> row.discount_start_date,
       DiscountEndDate |-> row.discount_end_date,
       EffectivePriceNum |-> IF active THEN effectivePrice.num
                             ELSE row.base_price_numerator,
       EffectivePriceDenom |-> IF active THEN effectivePrice.den
                               ELSE row.base_price_denominator,
       HasActiveDiscount |-> active,
       Status |-> row.status,
       CreatedAt |-> row.created_at,
       UpdatedAt |-> row.updated_at]

ReadModelGetProduct(table, id, at) ==
  IF id \notin DOMAIN table THEN [dto |-> NoDTO, err |-> "ErrProductNotFound"]
  ELSE [dto |-> RowToDTO(table[id], at), err |-> "nil"]

ProductResponseFromDTO(dto) ==
  [ID |-> dto.ID,
   Name |-> dto.Name,
   Description |-> dto.Description,
   Category |-> dto.Category,
   BasePriceNumerator |-> dto.BasePriceNum,
   BasePriceDenominator |-> dto.BasePriceDenom,
   EffectivePriceNumerator |-> dto.EffectivePriceNum,
   EffectivePriceDenominator |-> dto.EffectivePriceDenom,
   DiscountPercent |-> dto.DiscountPercent,
   DiscountStartDate |-> dto.DiscountStartDate,
   DiscountEndDate |-> dto.DiscountEndDate,
   HasActiveDiscount |-> dto.HasActiveDiscount,
   Status |-> dto.Status,
   CreatedAt |-> dto.CreatedAt,
   UpdatedAt |-> dto.UpdatedAt]

\* ProductQueries.GetProduct with the clock reading now
GetProduct(table, id, now) ==
  IF id = <<>> THEN [response |-> NoDTO, err |-> "ErrInvalidID"]
  ELSE LET r == ReadModelGetProduct(table, id, now)
       IN  IF r.err # "nil" THEN [response |-> NoDTO, err |-> r.err]
           ELSE [response |-> ProductResponseFromDTO(r.dto), err |-> "nil"]

\* the payload map of an event: its type, aggregate id, instant and fields
DomainEventToPayload(event) ==
  [f \in (DOMAIN event \ {"type", "aggregateID", "occurredAt", "basePrice",
                          "discountPercentage", "startDate", "endDate"})
         \cup {"event_type", "aggregate_id", "occurred_at"}
         \cup (IF "basePrice" \in DOMAIN event
                 THEN {"base_price_numerator", "base_price_denominator"} ELSE {})
         \cup (IF "discountPercentage" \in DOMAIN event
                 THEN {"discount_percentage", "start_date", "end_date"} ELSE {})
     |-> CASE f = "event_type" -> event.type
           [] f = "aggregate_id" -> event.aggregateID
           [] f = "occurred_at" -> event.occurredAt
           [] f = "base_price_numerator" -> event.basePrice.num
           [] f = "base_price_denominator" -> event.basePrice.den
           [] f = "discount_percentage" -> event.discountPercentage
           [] f = "start_date" -> event.startDate
           [] f = "end_date" -> event.endDate
           [] OTHER -> event[f]]

\* the outbox row written as already processed
InsertDomainEventMut_Processed(event, eventID, createdAt) ==
  [table |-> OutboxTable, op |-> "insert",
   cols |-> [event_id |-> eventID,
             event_type |-> event.type,
             aggregate_id |-> event.aggregateID,
             payload |-> DomainEventToPayload(event),
             status |-> "processed",
             created_at |-> createdAt,
             processed_at |-> createdAt]]

\* eventID is the uuid.New() of the call, createdAt its time.Now()
InsertDomainEventMut(event, eventID, createdAt) ==
  [table |-> OutboxTable, op |-> "insert",
   cols |-> [event_id |-> eventID,
             event_type |-> event.type,
             aggregate_id |-> event.aggregateID,
             payload |-> DomainEventToPayload(event),
             status |-> StatusPending,
             created_at |-> createdAt,
             processed_at |-> NoTime]]

----------------------------------------------------------------------------
(* Plan and Committer *)

NewPlan == <<>>

\* nil mutations appended like the others
Add_KeepsNil(plan, mut) == Append(plan, mut)

Add(plan, mut) == IF mut # NoMutation THEN Append(plan, mut) ELSE plan

IsEmpty(p) == Len(p) = 0

RECURSIVE AddAll(_, _)
AddAll(p, muts) ==
  IF muts = <<>> THEN p ELSE AddAll(Add(p, Head(muts)), Tail(muts))

Mutations(p) == p

Count(p) == Len(p)

Clear(p) == <<>>

\* the store as one value: both tables and the record of what landed
Tables(p, o, l) == [products |-> p, outbox |-> o, landed |-> l]

\* why the store refuses mutation mut, "nil" if it does not
MutationError(t, mut) ==
  IF mut.table = ProductsTable
  THEN IF mut.op = "insert"
         THEN IF mut.cols.product_id \in DOMAIN t.products
                THEN "AlreadyExists" ELSE "nil"
         ELSE IF mut.cols.product_id \in DOMAIN t.products
                THEN "nil" ELSE "NotFound"
  ELSE IF \E i \in DOMAIN t.outbox : t.outbox[i].event_id = mut.cols.event_id
         THEN "AlreadyExists" ELSE "nil"

\* an update that loses against a row with a later updated_at
ApplyMutation_NewestTimestampWins(t, mut, seq) ==
  IF mut.table = ProductsTable
  THEN [t EXCEPT
          !.products =
             IF mut.op = "insert"
               THEN (mut.cols.product_id :> mut.cols) @@ @
               ELSE IF @[mut.cols.product_id].updated_at > mut.cols.updated_at
                 THEN @
               ELSE [@ EXCEPT ![mut.cols.product_id] =
                       [c \in DOMAIN @ |-> IF c \in DOMAIN mut.cols
                                             THEN mut.cols[c] ELSE @[c]]],
          !.landed = @ \cup {<<seq, ProductsTable>>}]
  ELSE [t EXCEPT !.outbox = Append(@, mut.cols),
                 !.landed = @ \cup {<<seq, OutboxTable>>}]

\* the store after mutation mut of command seq
ApplyMutation(t, mut, seq) ==
  IF mut.table = ProductsTable
  THEN [t EXCEPT
          !.products =
             IF mut.op = "insert"
               THEN (mut.cols.product_id :> mut.cols) @@ @
               ELSE [@ EXCEPT ![mut.cols.product_id] =
                       [c \in DOMAIN @ |-> IF c \in DOMAIN mut.cols
                                             THEN mut.cols[c] ELSE @[c]]],
          !.landed = @ \cup {<<seq, ProductsTable>>}]
  ELSE [t EXCEPT !.outbox = Append(@, mut.cols),
                 !.landed = @ \cup {<<seq, OutboxTable>>}]

\* txn.BufferWrite(mutations) and the commit: every mutation in order, or
\* the first refusal and nothing written
RECURSIVE BufferWrite(_, _, _)
BufferWrite(t, mutations, seq) ==
  IF mutations = <<>> THEN [tables |-> t, err |-> "nil"]
  ELSE IF MutationError(t, Head(mutations)) # "nil"
    THEN [tables |-> t, err |-> MutationError(t, Head(mutations))]
  ELSE BufferWrite(ApplyMutation(t, Head(mutations), seq), Tail(mutations), seq)

\* client.ReadWriteTransaction: env is what the environment does to the
\* transaction ("nil": lets it commit; otherwise the failure it causes)
ReadWriteTransaction(t, mutations, env, seq) ==
  IF env # "nil" THEN [tables |-> t, err |-> env]
  ELSE LET w == BufferWrite(t, mutations, seq)
       IN  IF w.err # "nil" THEN [tables |-> t, err |-> w.err] ELSE w

\* one transaction per mutation instead of one for the plan
RECURSIVE Apply_PerMutation(_, _, _, _)
Apply_PerMutation(t, plan, env, seq) ==
  IF IsEmpty(plan) THEN [tables |-> t, err |-> "nil", tx |-> FALSE]
  ELSE IF Len(plan) = 1
    THEN [tables |-> ReadWriteTransaction(t, plan, env, seq).tables,
          err |-> ReadWriteTransaction(t, plan, env, seq).err, tx |-> TRUE]
  ELSE LET first == ReadWriteTransaction(t, <<Head(plan)>>, "nil", seq)
       IN  IF first.err # "nil"
             THEN [tables |-> t, err |-> first.err, tx |-> TRUE]
             ELSE Apply_PerMutation(first.tables, Tail(plan), env, seq)

Apply_SwallowsError(t, plan, env, seq) ==
  IF IsEmpty(plan) THEN [tables |-> t, err |-> "nil", tx |-> FALSE]
  ELSE [tables |-> ReadWriteTransaction(t, plan, env, seq).tables,
        err |-> "nil", tx |-> TRUE]

\* a transaction opened for an empty plan as well
Apply_AlwaysOpensTransaction(t, plan, env, seq) ==
  [tables |-> ReadWriteTransaction(t, plan, env, seq).tables,
   err |-> ReadWriteTransaction(t, plan, env, seq).err, tx |-> TRUE]

\* Committer.Apply: tx tells whether a transaction was opened
Apply(t, plan, env, seq) ==
  IF IsEmpty(plan) THEN [tables |-> t, err |-> "nil", tx |-> FALSE]
  ELSE [tables |-> ReadWriteTransaction(t, plan, env, seq).tables,
        err |-> ReadWriteTransaction(t, plan, env, seq).err, tx |-> TRUE]

----------------------------------------------------------------------------
(* Command use cases.  Each operator is the use case up to its call of     *)
(* Committer.Apply: the error it returns before that, or the plan it has   *)
(* built.  seq numbers the invocation; the ids uuid.New() draws are made   *)
(* from it, and clock.Now() is the invocation's number.                    *)

Digits == <<"1", "2", "3", "4", "5", "6", "7", "8", "9">>

ProductIdOf(seq) == <<"p", Digits[seq]>>

EventIdOf(seq, i) == <<"e", Digits[seq], Digits[i]>>

UnknownId == <<"p", "0">>

Now(seq) == seq

RECURSIVE AddEvents(_, _, _, _, _)
AddEvents(plan, events, i, seq, now) ==
  IF i > Len(events) THEN plan
  ELSE AddEvents(Add(plan, InsertDomainEventMut(events[i], EventIdOf(seq, i), now)),
                 events, i + 1, seq, now)

\* the plan of a command: the products mutation, then one outbox mutation
\* per pending event
BuildPlan(productMut, product, seq, now) ==
  AddEvents(Add(NewPlan, productMut), product.events, 1, seq, now)

CreateProduct(req, seq) ==
  LET now == Now(seq)
      made == NewProduct(ProductIdOf(seq), req.name, req.description, req.category,
                         TRUE, NewMoney(req.numerator, req.denominator), now)
  IN  IF made.err # "nil" THEN [err |-> made.err, plan |-> NewPlan]
      ELSE [err |-> "nil", plan |-> BuildPlan(InsertMut(made.p), made.p, seq, now)]

\* updated_at written although no field is dirty
UpdateProduct_AlwaysWrites(table, id, req, seq) ==
  LET now == Now(seq)
      found == FindByID(table, id)
      done == Update(found.p, req.name, req.description, req.category, now)
      mut == IF UpdateMut(done.p) # NoMutation THEN UpdateMut(done.p)
             ELSE ModelUpdateMut(done.p.id, [updated_at |-> now])
  IN  IF found.err # "nil" THEN [err |-> found.err, plan |-> NewPlan]
      ELSE IF done.err # "nil" THEN [err |-> done.err, plan |-> NewPlan]
      ELSE [err |-> "nil", plan |-> BuildPlan(mut, done.p, seq, now)]

UpdateProduct(table, id, req, seq) ==
  LET now == Now(seq)
      found == FindByID(table, id)
      done == Update(found.p, req.name, req.description, req.category, now)
  IN  IF found.err # "nil" THEN [err |-> found.err, plan |-> NewPlan]
      ELSE IF done.err # "nil" THEN [err |-> done.err, plan |-> NewPlan]
      ELSE [err |-> "nil", plan |-> BuildPlan(UpdateMut(done.p), done.p, seq, now)]

ActivateProduct_IgnoresError(table, id, seq) ==
  LET now == Now(seq)
      found == FindByID(table, id)
      done == Activate(found.p, now)
  IN  IF found.err # "nil" THEN [err |-> found.err, plan |-> NewPlan]
      ELSE [err |-> "nil", plan |-> BuildPlan(UpdateMut(done.p), done.p, seq, now)]

ActivateProduct(table, id, seq) ==
  LET now == Now(seq)
      found == FindByID(table, id)
      done == Activate(found.p, now)
  IN  IF found.err # "nil" THEN [err |-> found.err, plan |-> NewPlan]
      ELSE IF done.err # "nil" THEN [err |-> done.err, plan |-> NewPlan]
      ELSE [err |-> "nil", plan |-> BuildPlan(UpdateMut(done.p), done.p, seq, now)]

DeactivateProduct(table, id, seq) ==
  LET now == Now(seq)
      found == FindByID(table, id)
      done == Deactivate(found.p, now)
  IN  IF found.err # "nil" THEN [err |-> found.err, plan |-> NewPlan]
      ELSE IF done.err # "nil" THEN [err |-> done.err, plan |-> NewPlan]
      ELSE [err |-> "nil", plan |-> BuildPlan(UpdateMut(done.p), done.p, seq, now)]

ArchiveProduct(table, id, seq) ==
  LET now == Now(seq)
      found == FindByID(table, id)
      done == Archive(found.p, now)
  IN  IF found.err # "nil" THEN [err |-> found.err, plan |-> NewPlan]
      ELSE IF done.err # "nil" THEN [err |-> done.err, plan |-> NewPlan]
      ELSE [err |-> "nil", plan |-> BuildPlan(ArchiveMut(done.p), done.p, seq, now)]

UseCaseApplyDiscount(table, id, req, seq) ==
  LET now == Now(seq)
      found == FindByID(table, id)
      percentage == NewRat(Trunc(NewRat(req.percentage.num * 100,
                                        req.percentage.den)), 100)
      made == NewDiscount(TRUE, percentage, req.startDate, req.endDate)
      done == ApplyDiscount(found.p, made.d, now)
  IN  IF found.err # "nil" THEN [err |-> found.err, plan |-> NewPlan]
      ELSE IF made.err # "nil" THEN [err |-> made.err, plan |-> NewPlan]
      ELSE IF done.err # "nil" THEN [err |-> done.err, plan |-> NewPlan]
      ELSE [err |-> "nil", plan |-> BuildPlan(UpdateMut(done.p), done.p, seq, now)]

UseCaseRemoveDiscount(table, id, seq) ==
  LET now == Now(seq)
      found == FindByID(table, id)
      done == RemoveDiscount(found.p, now)
  IN  IF found.err # "nil" THEN [err |-> found.err, plan |-> NewPlan]
      ELSE IF done.err # "nil" THEN [err |-> done.err, plan |-> NewPlan]
      ELSE [err |-> "nil", plan |-> BuildPlan(UpdateMut(done.p), done.p, seq, now)]

----------------------------------------------------------------------------
(* Store-level runs: command invocations against one store, starting       *)
(* empty.  An invocation takes two steps when it reaches Apply: the step   *)
(* that reads the store and builds the plan, and the commit.               *)

NoRequest == [none |-> TRUE]

CreateRequests ==
  { [name |-> <<"a", " ">>, description |-> <<"d">>, category |-> <<"c">>,
     numerator |-> 10000, denominator |-> 100],
    [name |-> <<" ">>, description |-> <<"d">>, category |-> <<"c">>,
     numerator |-> 10000, denominator |-> 100] }

UpdateRequests ==
  { [name |-> <<"b">>, description |-> <<"d">>, category |-> <<"c">>],
    [name |-> <<"a">>, description |-> <<"d">>, category |-> <<"c">>],
    [name |-> <<"a">>, description |-> <<"d">>, category |-> <<" ">>] }

DiscountRequests ==
  { [percentage |-> NewRat(20, 1), startDate |-> 0, endDate |-> 9],
    [percentage |-> NewRat(1, 2), startDate |-> 0, endDate |-> 9],
    [percentage |-> NewRat(0, 1), startDate |-> 0, endDate |-> 9] }

\* errors of the environment that make a transaction fail
TxErrors == {"Canceled", "Unavailable"}

Targets == DOMAIN products \cup {UnknownId}

\* invocation issued + 1 starts: it returns at once with r.err or with an
\* empty plan, or it goes on to Apply with the plan r.plan; before is the
\* set of commands whose writes were visible when it read the store
Start(op, id, req, r) ==
  LET seq == issued + 1
  IN  /\ issued' = seq
      /\ IF r.err # "nil" \/ IsEmpty(r.plan)
           THEN /\ results' = (seq :> [op |-> op, id |-> id, req |-> req,
                                       before |-> {x[1] : x \in landed},
                                       err |-> r.err, tx |-> FALSE,
                                       txErr |-> "nil"]) @@ results
                /\ inflight' = inflight
           ELSE /\ inflight' = inflight \cup
                      {[seq |-> seq, op |-> op, id |-> id, req |-> req,
                        plan |-> r.plan,
                        before |-> {x[1] : x \in landed}]}
                /\ results' = results
      /\ UNCHANGED <<products, outbox, landed>>
      /\ UNCHANGED <<aggVars, planVars, valueVars>>

\* the invocations of this run: issued counts the earlier ones as well when
\* the run starts from a store that holds rows already
Invocations == Cardinality(DOMAIN results) + Cardinality(inflight)

\* a run from the empty store holds at most MaxCmds invocations, a run from
\* a seeded store MaxSeededCmds, and MaxWorkers of them are in flight
CanStart ==
  /\ Invocations < (IF issued = Invocations THEN MaxCmds ELSE MaxSeededCmds)
  /\ Cardinality(inflight) < MaxWorkers

CmdCreate ==
  /\ CanStart
  /\ \E req \in CreateRequests :
       Start("CreateProduct", ProductIdOf(issued + 1), req,
             CreateProduct(req, issued + 1))

CmdUpdate ==
  /\ CanStart
  /\ \E id \in Targets, req \in UpdateRequests :
       Start("UpdateProduct", id, req, UpdateProduct(products, id, req, issued + 1))

CmdActivate ==
  /\ CanStart
  /\ \E id \in Targets :
       Start("ActivateProduct", id, NoRequest,
             ActivateProduct(products, id, issued + 1))

CmdDeactivate ==
  /\ CanStart
  /\ \E id \in Targets :
       Start("DeactivateProduct", id, NoRequest,
             DeactivateProduct(products, id, issued + 1))

CmdArchive ==
  /\ CanStart
  /\ \E id \in Targets :
       Start("ArchiveProduct", id, NoRequest,
             ArchiveProduct(products, id, issued + 1))

CmdApplyDiscount ==
  /\ CanStart
  /\ \E id \in Targets, req \in DiscountRequests :
       Start("ApplyDiscount", id, req,
             UseCaseApplyDiscount(products, id, req, issued + 1))

CmdRemoveDiscount ==
  /\ CanStart
  /\ \E id \in Targets :
       Start("RemoveDiscount", id, NoRequest,
             UseCaseRemoveDiscount(products, id, issued + 1))

\* invocation c reaches Committer.Apply and returns what Apply returns
CommitOf(c, env) ==
  LET a == Apply(Tables(products, outbox, landed), c.plan, env, c.seq)
      t == ReadWriteTransaction(Tables(products, outbox, landed), c.plan, env, c.seq)
  IN  /\ products' = a.tables.products
      /\ outbox' = a.tables.outbox
      /\ landed' = a.tables.landed
      /\ inflight' = inflight \ {c}
      /\ results' = (c.seq :> [op |-> c.op, id |-> c.id, req |-> c.req,
                               before |-> c.before,
                               err |-> a.err, tx |-> a.tx,
                               txErr |-> t.err]) @@ results
      /\ UNCHANGED issued
      /\ UNCHANGED <<aggVars, planVars, valueVars>>

Commit == \E c \in inflight, env \in {"nil"} \cup TxErrors : CommitOf(c, env)

Init ==
  /\ prod = NoProduct
  /\ lastCall = NoCall
  /\ calls = 0
  /\ StoreInitial
  /\ PlanInitial
  /\ ValueInitial

Next ==
  \/ CmdCreate
  \/ CmdUpdate
  \/ CmdActivate
  \/ CmdDeactivate
  \/ CmdArchive
  \/ CmdApplyDiscount
  \/ CmdRemoveDiscount
  \/ Commit

Spec == Init /\ [][Next]_vars


\* Runs that start from a store in which invocation 1, a CreateProduct, and
\* invocation 2, an ActivateProduct of that product, have committed.
SeedRequest ==
  [name |-> <<"a", " ">>, description |-> <<"d">>, category |-> <<"c">>,
   numerator |-> 10000, denominator |-> 100]

SeedCreated ==
  Apply(Tables(<<>>, <<>>, {}), CreateProduct(SeedRequest, 1).plan, "nil", 1).tables

SeedActivated ==
  Apply(SeedCreated,
        ActivateProduct(SeedCreated.products, ProductIdOf(1), 2).plan,
        "nil", 2).tables

SeededInit ==
  /\ prod = NoProduct
  /\ lastCall = NoCall
  /\ calls = 0
  /\ products = SeedActivated.products
  /\ outbox = SeedActivated.outbox
  /\ landed = SeedActivated.landed
  /\ inflight = {}
  /\ results = <<>>
  /\ issued = 2
  /\ PlanInitial
  /\ ValueInitial

SeededSpec == SeededInit /\ [][Next]_vars

----------------------------------------------------------------------------
(* Plan-level runs: one Plan, filled by Add and AddAll, emptied by Clear,  *)
(* and handed to Committer.Apply against the store, which starts empty.    *)

\* the arguments of Add: nil, and the mutations of a CreateProduct and of
\* an ActivateProduct of the created product
PlanArguments ==
  {NoMutation}
    \cup {CreateProduct(SeedRequest, 1).plan[i] : i \in 1..2}
    \cup {ActivateProduct(SeedCreated.products, ProductIdOf(1), 2).plan[i] : i \in 1..2}

PlanAdd ==
  /\ Len(log) < MaxPlan
  /\ \E mut \in PlanArguments :
       /\ planMutations' = Add(planMutations, mut)
       /\ log' = Append(log, mut)
  /\ UNCHANGED <<aggVars, storeVars, valueVars>>

PlanAddAll ==
  /\ Len(log) + 2 <= MaxPlan
  /\ \E m1, m2 \in PlanArguments :
       /\ planMutations' = AddAll(planMutations, <<m1, m2>>)
       /\ log' = log \o <<m1, m2>>
  /\ UNCHANGED <<aggVars, storeVars, valueVars>>

PlanClear ==
  /\ planMutations' = Clear(planMutations)
  /\ log' = <<>>
  /\ UNCHANGED <<aggVars, storeVars, valueVars>>

\* Committer.Apply(ctx, plan): env is what the environment does to a
\* transaction, if one is opened; results keeps the last call's outcome
PlanApply ==
  /\ issued < MaxApplies
  /\ \E env \in {"nil"} \cup TxErrors :
       LET a == Apply(Tables(products, outbox, landed), planMutations, env,
                      issued + 1)
       IN  /\ products' = a.tables.products
           /\ outbox' = a.tables.outbox
           /\ landed' = a.tables.landed
           /\ results' = (issued + 1) :> [op |-> "Apply", env |-> env,
                                          err |-> a.err, tx |-> a.tx]
  /\ issued' = issued + 1
  /\ UNCHANGED <<aggVars, planVars, valueVars, inflight>>

PlanNext ==
  \/ PlanAdd
  \/ PlanAddAll
  \/ PlanClear
  \/ PlanApply

PlanSpec == Init /\ [][PlanNext]_vars

----------------------------------------------------------------------------
(* Value-level runs: the Money and Discount value objects called on        *)
(* arguments fixed at the start of the run.                                *)

\* percentages handed to NewDiscount and Money.ApplyDiscount, nil included
PercentInputs ==
  {NilRat, NewRat(-1, 1), NewRat(0, 1), NewRat(1, 2), NewRat(20, 1),
   NewRat(25, 1), NewRat(100, 1), NewRat(201, 2), NewRat(101, 1)}

Numerators == {-3, 0, 1, 1999, 10000}
Denominators == {-100, -3, 0, 1, 100}
Factors == {-2, -1, 0, 1, 3}

\* NewDiscount(percentage, startDate, endDate) and IsValidAt(t) on its result
DiscountArgs ==
  [kind : {"discount"}, percentage : PercentInputs,
   startDate : Times, endDate : Times, t : Times]

\* NewMoney(numerator, denominator), NewMoney(k*numerator, k*denominator)
\* and Money.ApplyDiscount(percentage)
MoneyArgs ==
  [kind : {"money"}, numerator : Numerators, denominator : Denominators,
   k : Factors, percentage : PercentInputs]

\* the NewDiscount call on the arguments of the run
MadeDiscount ==
  NewDiscount(valueArgs.percentage # NilRat,
              IF valueArgs.percentage = NilRat THEN NoDiscount.percentage
              ELSE valueArgs.percentage,
              valueArgs.startDate, valueArgs.endDate)

\* ReconstructProduct's arguments, among them values NewProduct rejects
ProductArgs ==
  [kind : {"product"}, id : {<<"p", "1">>, <<>>}, name : {<<"a">>, <<" ", "a">>, <<>>},
   description : {<<"d">>}, category : {<<"c">>, <<" ">>},
   basePrice : {NewMoney(10000, 100), NewMoney(0, 1), NewMoney(-1, 100)},
   discount : {NoDiscount, NewDiscount(TRUE, NewRat(20, 1), 0, 2).d},
   status : {ProductStatusDraft, ProductStatusActive, ProductStatusInactive,
             ProductStatusArchived},
   createdAt : {0}, updatedAt : Times, archivedAt : {NoTime, 0}]

ValueInit ==
  /\ prod = NoProduct
  /\ lastCall = NoCall
  /\ calls = 0
  /\ StoreInitial
  /\ PlanInitial
  /\ valueArgs \in DiscountArgs \cup MoneyArgs \cup ProductArgs
  /\ valueResult = NoResult

CallNewDiscount ==
  /\ valueArgs.kind = "discount"
  /\ valueResult' = [op |-> "NewDiscount", d |-> MadeDiscount.d,
                     err |-> MadeDiscount.err]
  /\ UNCHANGED <<aggVars, storeVars, planVars, valueArgs>>

CallIsValidAt ==
  /\ valueArgs.kind = "discount"
  /\ MadeDiscount.err = "nil"
  /\ valueResult' = [op |-> "IsValidAt", d |-> MadeDiscount.d,
                     valid |-> IsValidAt(MadeDiscount.d, valueArgs.t)]
  /\ UNCHANGED <<aggVars, storeVars, planVars, valueArgs>>

CallEquals ==
  /\ valueArgs.kind = "money"
  /\ LET m == NewMoney(valueArgs.numerator, valueArgs.denominator)
         other == NewMoney(valueArgs.k * valueArgs.numerator,
                           valueArgs.k * valueArgs.denominator)
     IN  valueResult' = [op |-> "Equals", m |-> m, other |-> other,
                         equal |-> Equals(m, other)]
  /\ UNCHANGED <<aggVars, storeVars, planVars, valueArgs>>

CallMoneyApplyDiscount ==
  /\ valueArgs.kind = "money"
  /\ LET m == NewMoney(valueArgs.numerator, valueArgs.denominator)
     IN  valueResult' = [op |-> "ApplyDiscount", m |-> m,
                         price |-> MoneyApplyDiscount(m, valueArgs.percentage)]
  /\ UNCHANGED <<aggVars, storeVars, planVars, valueArgs>>

CallReconstructProduct ==
  /\ valueArgs.kind = "product"
  /\ valueResult' =
       [op |-> "ReconstructProduct",
        p |-> ReconstructProduct(valueArgs.id, valueArgs.name,
                valueArgs.description, valueArgs.category, valueArgs.basePrice,
                valueArgs.discount, valueArgs.status, valueArgs.createdAt,
                valueArgs.updatedAt, valueArgs.archivedAt)]
  /\ UNCHANGED <<aggVars, storeVars, planVars, valueArgs>>

ValueNext ==
  \/ CallNewDiscount
  \/ CallIsValidAt
  \/ CallEquals
  \/ CallMoneyApplyDiscount
  \/ CallReconstructProduct

ValueSpec == ValueInit /\ [][ValueNext]_vars

----------------------------------------------------------------------------
(* Properties of the aggregate (checked under AggSpec) *)

\* a business method call has just been made in this step
Called(op) == calls' = calls + 1 /\ lastCall'.op = op

\* the queue q2 is the queue q1 with exactly one event of type t appended
AppendsOne(q1, q2, t) ==
  /\ Len(q2) = Len(q1) + 1
  /\ SubSeq(q2, 1, Len(q1)) = q1
  /\ q2[Len(q2)].type = t

\* C3: Archived is terminal: once the product's status is Archived, no call
\* of Update, Activate, Deactivate, Archive, ApplyDiscount or RemoveDiscount
\* changes its status or any other field of the product.
C3_ArchivedTerminal ==
  [][prod.status = ProductStatusArchived => prod' = prod]_vars

C3_Witness ==
  /\ prod.status = ProductStatusArchived
  /\ lastCall.op = "Update"
  /\ lastCall.err = "ErrProductArchived"
  /\ lastCall.name # prod.name

\* C4: a business method call that returns an error leaves every field of
\* the product, its dirty fields and its pending events as they were.
C4_ErrorLeavesUnmodified ==
  [][lastCall'.err # "nil" => prod' = prod]_vars

C4_Witness ==
  /\ lastCall.op = "Update"
  /\ lastCall.err = "ErrInvalidProductCategory"
  /\ TrimSpace(lastCall.name) # prod.name
  /\ prod.changes # {}
  /\ prod.events # <<>>

\* C7: Update with exactly the current name, description and category of a
\* non-archived product (created or reconstructed) succeeds, marks no
\* further field dirty and appends no event.
C7_UpdateIdempotent ==
  [][(/\ Called("Update")
      /\ prod.status # ProductStatusArchived
      /\ lastCall'.name = prod.name
      /\ lastCall'.description = prod.description
      /\ lastCall'.category = prod.category)
     => (/\ lastCall'.err = "nil"
         /\ prod'.changes = prod.changes
         /\ prod'.events = prod.events)]_vars

C7_Witness ==
  /\ calls = 1
  /\ lastCall.op = "Update"
  /\ lastCall.err = "nil"
  /\ lastCall.name = prod.name
  /\ lastCall.description = prod.description
  /\ lastCall.category = prod.category
  /\ prod.status # ProductStatusArchived
  /\ prod.changes = {}
  /\ prod.events = <<>>

\* C8: Activate succeeds exactly from Draft or Inactive, and then sets the
\* status to Active, marks status dirty and appends one Activated event;
\* from Active it fails with ProductAlreadyActive and from Archived with
\* ProductArchived, both without any change.
C8_Activate ==
  [][Called("Activate") =>
       IF prod.status \in {ProductStatusDraft, ProductStatusInactive}
       THEN /\ lastCall'.err = "nil"
            /\ prod'.status = ProductStatusActive
            /\ Dirty(prod'.changes, FieldStatus)
            /\ AppendsOne(prod.events, prod'.events, "product.activated")
       ELSE /\ lastCall'.err = IF prod.status = ProductStatusActive
                                 THEN "ErrProductAlreadyActive"
                                 ELSE "ErrProductArchived"
            /\ prod' = prod]_vars

C8_Witness ==
  /\ calls = 2
  /\ lastCall.op = "Activate"
  /\ lastCall.err = "nil"
  /\ prod.status = ProductStatusActive
  /\ Len(prod.events) = 2
  /\ prod.events[1].type = "product.deactivated"

\* C9: Deactivate succeeds exactly from Active, and then sets the status to
\* Inactive, marks status dirty and appends one Deactivated event; it fails
\* with ProductAlreadyInactive from Inactive, ProductNotActive from Draft
\* and ProductArchived from Archived.
C9_Deactivate ==
  [][Called("Deactivate") =>
       IF prod.status = ProductStatusActive
       THEN /\ lastCall'.err = "nil"
            /\ prod'.status = ProductStatusInactive
            /\ Dirty(prod'.changes, FieldStatus)
            /\ AppendsOne(prod.events, prod'.events, "product.deactivated")
       ELSE /\ lastCall'.err =
                 CASE prod.status = ProductStatusInactive -> "ErrProductAlreadyInactive"
                   [] prod.status = ProductStatusDraft -> "ErrProductNotActive"
                   [] OTHER -> "ErrProductArchived"
            /\ prod'.status = prod.status]_vars

C9_Witness ==
  /\ calls = 2
  /\ lastCall.op = "Deactivate"
  /\ lastCall.err = "ErrProductAlreadyInactive"
  /\ prod.status = ProductStatusInactive
  /\ Len(prod.events) = 1
  /\ prod.events[1].type = "product.deactivated"

\* C10: Archive succeeds from Draft, Active and Inactive, and then sets the
\* status to Archived and archivedAt to the supplied now and appends exactly
\* one Archived event; on an archived product it fails with ProductArchived.
C10_Archive ==
  [][Called("Archive") =>
       IF prod.status # ProductStatusArchived
       THEN /\ lastCall'.err = "nil"
            /\ prod'.status = ProductStatusArchived
            /\ prod'.archivedAt = lastCall'.now
            /\ AppendsOne(prod.events, prod'.events, "product.archived")
       ELSE lastCall'.err = "ErrProductArchived"]_vars

C10_Witness ==
  /\ lastCall.op = "Archive"
  /\ lastCall.err = "nil"
  /\ prod.status = ProductStatusArchived
  /\ prod.archivedAt = 1
  /\ prod.createdAt = 0
  /\ prod.events[Len(prod.events)].type = "product.archived"

----------------------------------------------------------------------------
(* Properties of the command use cases (checked under Spec) *)

\* every mutation of the plan is visible in tables p (products), o (outbox)
PlanVisible(plan, p, o) ==
  \A i \in DOMAIN plan :
    IF plan[i].table = ProductsTable
    THEN /\ plan[i].cols.product_id \in DOMAIN p
         /\ \A col \in DOMAIN plan[i].cols :
              p[plan[i].cols.product_id][col] = plan[i].cols[col]
    ELSE \E j \in DOMAIN o : o[j] = plan[i].cols

EventVisible(n) == \E i \in DOMAIN outbox : outbox[i].event_id = EventIdOf(n, 1)

\* C1: in every reachable state, for every command invocation, its write to
\* the products table is visible if and only if the outbox row of its event
\* is visible, whatever the interleaving and whichever commits failed.
C1_StateAndEventTogether ==
  \A n \in 1..issued :
    /\ (<<n, ProductsTable>> \in landed) <=> (<<n, OutboxTable>> \in landed)
    /\ (<<n, OutboxTable>> \in landed) <=> EventVisible(n)

C1_Witness ==
  \E n, m \in DOMAIN results :
    /\ results[n].tx /\ results[n].txErr \in TxErrors
    /\ ~EventVisible(n) /\ <<n, ProductsTable>> \notin landed
    /\ results[m].op = "UpdateProduct" /\ results[m].err = "nil"
    /\ EventVisible(m) /\ <<m, ProductsTable>> \in landed

\* C2: when an invocation's transaction fails, no mutation of its plan is
\* visible and the use case returns the transaction's error as it is; when
\* it succeeds, every mutation of the plan is visible.
C2_ApplyAllOrNothing ==
  [][\A c \in inflight :
       c \notin inflight' =>
         IF results'[c.seq].txErr # "nil"
         THEN /\ products' = products
              /\ outbox' = outbox
              /\ results'[c.seq].err = results'[c.seq].txErr
         ELSE /\ results'[c.seq].err = "nil"
              /\ PlanVisible(c.plan, products', outbox')]_vars

C2_Witness ==
  \E n \in DOMAIN results :
    /\ results[n].op = "ActivateProduct"
    /\ results[n].tx
    /\ results[n].txErr = "Canceled"
    /\ results[n].err = "Canceled"
    /\ products[results[n].id].status = ProductStatusDraft
    /\ Len(outbox) = 1

\* the invocation started in this step is command op on product id
Started(op, id) ==
  /\ issued' = issued + 1
  /\ \/ /\ issued' \in DOMAIN results'
        /\ results'[issued'].op = op
        /\ results'[issued'].id = id
     \/ \E c \in inflight' : c.seq = issued' /\ c.op = op /\ c.id = id

\* the request of the invocation started in this step
StartedRequest ==
  IF issued' \in DOMAIN results' THEN results'[issued'].req
  ELSE (CHOOSE c \in inflight' : c.seq = issued').req

\* the invocation started in this step returned err without a transaction
\* and without a change to either table
ReturnedAtOnce(err) ==
  /\ issued' \in DOMAIN results'
  /\ results'[issued'].err = err
  /\ ~results'[issued'].tx
  /\ products' = products
  /\ outbox' = outbox

\* C5: a command whose load, validation or aggregate method fails opens no
\* transaction and leaves both tables unchanged; ApplyDiscount (with a
\* request NewDiscount accepts) on a Draft product returns ProductNotActive
\* and ActivateProduct on an archived product returns ProductArchived.
C5_FailedCommandWritesNothing ==
  [][/\ (issued' = issued + 1 /\ issued' \in DOMAIN results'
           /\ results'[issued'].err # "nil")
        => ReturnedAtOnce(results'[issued'].err)
     /\ \A id \in DOMAIN products :
          /\ (Started("ActivateProduct", id)
                /\ products[id].status = ProductStatusArchived)
             => ReturnedAtOnce("ErrProductArchived")
          /\ (Started("ApplyDiscount", id)
                /\ products[id].status = ProductStatusDraft
                /\ NewDiscount(TRUE, StartedRequest.percentage,
                               StartedRequest.startDate,
                               StartedRequest.endDate).err = "nil")
             => ReturnedAtOnce("ErrProductNotActive")]_vars

C5_Witness ==
  \E n \in DOMAIN results :
    /\ results[n].op = "ActivateProduct"
    /\ results[n].err = "ErrProductArchived"
    /\ ~results[n].tx
    /\ products[results[n].id].status = ProductStatusArchived
    /\ Len(outbox) = 2

\* another command on the same product committed after c read the store
Overlapped(c) ==
  \E n \in {x[1] : x \in landed} \ c.before :
    n \in DOMAIN results /\ results[n].id = c.id

\* C6: when two commands on one product both load before either commits,
\* the later commit is not rejected as stale: unless the environment fails
\* its transaction it succeeds, every column it writes holds its value, its
\* outbox event is stored and the earlier command's event stays stored.
C6_LaterCommitWins ==
  [][\A c \in inflight :
       (c \notin inflight' /\ Overlapped(c)) =>
         \/ results'[c.seq].txErr \in TxErrors
         \/ /\ results'[c.seq].err = "nil"
            /\ PlanVisible(c.plan, products', outbox')
            /\ SubSeq(outbox', 1, Len(outbox)) = outbox
            /\ Len(outbox') = Len(outbox) + 1]_vars

C6_Witness ==
  \E n, m \in DOMAIN results :
    /\ results[n].op = "ArchiveProduct" /\ results[m].op = "ActivateProduct"
    /\ results[n].id = results[m].id
    /\ results[n].tx /\ results[n].err = "nil"
    /\ results[m].tx /\ results[m].err = "nil"
    /\ n \notin results[m].before /\ m \notin results[n].before
    /\ EventVisible(n) /\ EventVisible(m)
    /\ products[results[n].id].status = ProductStatusActive
    /\ products[results[n].id].archived_at # NoTime
    /\ products[results[n].id].updated_at = Now(m)

----------------------------------------------------------------------------
(* Properties of the aggregate, discounts and prices (checked under        *)
(* AggSpec)                                                                *)

\* C11: ApplyDiscount called on a product whose status is Archived fails
\* with ProductArchived.
C11_ApplyDiscountOnArchived ==
  [][(Called("ApplyDiscount") /\ prod.status = ProductStatusArchived)
       => lastCall'.err = "ErrProductArchived"]_vars

\* C12: Update, Activate, Deactivate, Archive and RemoveDiscount called on
\* an Archived product each fail with ProductArchived, whatever other error
\* the call would otherwise give (blank name or category, no discount).
C12_ArchivedCheckFirst ==
  [][(/\ prod.status = ProductStatusArchived
      /\ \E op \in {"Update", "Activate", "Deactivate", "Archive",
                     "RemoveDiscount"} : Called(op))
       => lastCall'.err = "ErrProductArchived"]_vars

C12_Witness ==
  /\ calls = 2
  /\ lastCall.op = "RemoveDiscount"
  /\ lastCall.err = "ErrProductArchived"
  /\ prod.status = ProductStatusArchived
  /\ ~prod.discount.present
  /\ prod.events[Len(prod.events)].type = "product.archived"

\* the product was built by NewProduct (its first pending event is Created)
BuiltByNewProduct(p) ==
  p.events # <<>> /\ p.events[1].type = "product.created"

\* the last DiscountApplied event among events, which has at least one
LastApplied(events) ==
  LET A == {i \in DOMAIN events : events[i].type = "product.discount_applied"}
  IN  events[CHOOSE i \in A : \A j \in A : j <= i]

\* p's discount is the one of its last DiscountApplied event, which occurred
\* before the discount's endDate
AppliedBeforeEnd(p) ==
  /\ \E i \in DOMAIN p.events : p.events[i].type = "product.discount_applied"
  /\ LastApplied(p.events).discountPercentage = p.discount.percentage
  /\ LastApplied(p.events).startDate = p.discount.startDate
  /\ LastApplied(p.events).endDate = p.discount.endDate
  /\ LastApplied(p.events).occurredAt < p.discount.endDate

\* C13: ApplyDiscount succeeds exactly when the status is Active, a discount
\* is supplied and now < endDate (a discount starting in the future is
\* accepted); from Draft or Inactive it fails with ProductNotActive, on an
\* Active product without a discount with InvalidDiscountPercentage and with
\* now >= endDate with InvalidDiscountPeriod.  So every product built by
\* NewProduct and business methods that has a discount got it from a call
\* whose now was before the discount's endDate.
C13_ApplyDiscountGuards ==
  [][/\ Called("ApplyDiscount") =>
          LET d == lastCall'.discount
              now == lastCall'.now
          IN  /\ (lastCall'.err = "nil") <=>
                    (/\ prod.status = ProductStatusActive
                     /\ d.present
                     /\ now < d.endDate)
              /\ prod.status \in {ProductStatusDraft, ProductStatusInactive}
                    => lastCall'.err = "ErrProductNotActive"
              /\ (prod.status = ProductStatusActive /\ ~d.present)
                    => lastCall'.err = "ErrInvalidDiscountPercentage"
              /\ (prod.status = ProductStatusActive /\ d.present
                     /\ now >= d.endDate)
                    => lastCall'.err = "ErrInvalidDiscountPeriod"
              /\ lastCall'.err = "nil" => prod'.discount = d
     /\ (BuiltByNewProduct(prod') /\ prod'.discount.present)
          => AppliedBeforeEnd(prod')]_vars

C13_Witness ==
  /\ BuiltByNewProduct(prod)
  /\ lastCall.op = "ApplyDiscount"
  /\ lastCall.err = "nil"
  /\ prod.discount.present
  /\ lastCall.now < prod.discount.startDate
  /\ LastApplied(prod.events).occurredAt = lastCall.now

\* C14: RemoveDiscount on a Draft, Active or Inactive product that has a
\* discount, valid at now or not, clears the discount, marks the discount
\* field dirty and appends one DiscountRemoved event, and EffectivePrice is
\* then basePrice at every instant; without a discount it fails with
\* NoDiscountToRemove.
C14_RemoveDiscount ==
  [][(Called("RemoveDiscount") /\ prod.status # ProductStatusArchived) =>
       IF prod.discount.present
       THEN /\ lastCall'.err = "nil"
            /\ ~prod'.discount.present
            /\ Dirty(prod'.changes, FieldDiscount)
            /\ AppendsOne(prod.events, prod'.events, "product.discount_removed")
            /\ Len(prod'.events) = Len(prod.events) + 1
            /\ \A t \in Times : EffectivePrice(prod', t) = prod'.basePrice
       ELSE /\ lastCall'.err = "ErrNoDiscountToRemove"
            /\ prod' = prod]_vars

C14_Witness ==
  /\ calls = 1
  /\ lastCall.op = "RemoveDiscount"
  /\ lastCall.err = "nil"
  /\ lastCall.now = 2
  /\ prod.status = ProductStatusDraft
  /\ ~prod.discount.present
  /\ Len(prod.events) = 1
  /\ prod.events[1].type = "product.discount_removed"

\* m reduced by percentage percent, computed in one step:
\* m * (100 - percentage) / 100
ReducedBy(m, percentage) ==
  NewRat(m.num * (100 * percentage.den - percentage.num),
         m.den * 100 * percentage.den)

\* C16: at every instant t, EffectivePrice(t) is basePrice reduced by the
\* discount's percentage (basePrice.ApplyDiscount(percentage)) if a discount
\* is present and startDate <= t < endDate, and basePrice otherwise; base
\* 10000/100 with 20% over [0,2) gives 8000/100 at 0 and 10000/100 at 2.
C16_EffectivePrice ==
  \A t \in Times :
    /\ EffectivePrice(prod, t) =
         IF prod.discount.present /\ prod.discount.startDate <= t
              /\ t < prod.discount.endDate
         THEN ReducedBy(prod.basePrice, prod.discount.percentage)
         ELSE prod.basePrice
    /\ (prod.discount.present /\ prod.discount.startDate <= t
           /\ t < prod.discount.endDate)
         => EffectivePrice(prod, t) =
              MoneyApplyDiscount(prod.basePrice, prod.discount.percentage)
    /\ (/\ prod.basePrice = NewMoney(10000, 100)
        /\ prod.discount = NewDiscount(TRUE, NewRat(20, 1), 0, 2).d)
         => /\ EffectivePrice(prod, 0) = NewMoney(8000, 100)
            /\ EffectivePrice(prod, 2) = NewMoney(10000, 100)

C16_Witness ==
  /\ lastCall.op = "ApplyDiscount"
  /\ lastCall.err = "nil"
  /\ prod.basePrice = NewMoney(1999, 100)
  /\ prod.discount.percentage = NewRat(25, 2)
  /\ prod.discount.startDate = 1
  /\ EffectivePrice(prod, 0) = NewMoney(1999, 100)
  /\ EffectivePrice(prod, 1) = NewRat(13993, 800)
  /\ EffectivePrice(prod, 2) = NewMoney(1999, 100)

\* NewProduct has just been called in this step
CalledNewProduct == lastCall.op = "none" /\ lastCall'.op = "NewProduct"

\* C17: NewProduct with valid input returns a product with status Draft, no
\* discount, no archivedAt, createdAt = updatedAt = now and exactly one
\* pending event, a Created event carrying the product's id and now.
C17_NewProductValid ==
  [][(/\ CalledNewProduct
      /\ TrimSpace(lastCall'.id) # <<>>
      /\ TrimSpace(lastCall'.name) # <<>>
      /\ TrimSpace(lastCall'.category) # <<>>
      /\ lastCall'.hasPrice /\ lastCall'.price.num > 0)
     => (/\ lastCall'.err = "nil"
         /\ prod'.id = lastCall'.id
         /\ prod'.status = ProductStatusDraft
         /\ ~prod'.discount.present
         /\ prod'.archivedAt = NoTime
         /\ prod'.createdAt = lastCall'.now
         /\ prod'.updatedAt = lastCall'.now
         /\ Len(prod'.events) = 1
         /\ prod'.events[1].type = "product.created"
         /\ prod'.events[1].aggregateID = lastCall'.id
         /\ prod'.events[1].occurredAt = lastCall'.now)]_vars

C17_Witness ==
  /\ lastCall.op = "NewProduct"
  /\ lastCall.err = "nil"
  /\ lastCall.now = 1
  /\ prod.status = ProductStatusDraft
  /\ prod.createdAt = 1
  /\ Len(prod.events) = 1
  /\ prod.events[1].occurredAt = 1

\* C18: NewProduct rejects a blank id, name or category and a nil, zero or
\* negative price with InvalidID, InvalidProductName,
\* InvalidProductCategory and InvalidBasePrice (the first that applies, in
\* that order), creating nothing; and every product built by NewProduct and
\* any business method calls has a non-blank id, name and category and a
\* strictly positive basePrice.
C18_ProductInvariants ==
  [][/\ CalledNewProduct =>
          LET badID == TrimSpace(lastCall'.id) = <<>>
              badName == TrimSpace(lastCall'.name) = <<>>
              badCategory == TrimSpace(lastCall'.category) = <<>>
              badPrice == ~lastCall'.hasPrice \/ lastCall'.price.num <= 0
          IN  /\ badID => lastCall'.err = "ErrInvalidID"
              /\ (~badID /\ badName) => lastCall'.err = "ErrInvalidProductName"
              /\ (~badID /\ ~badName /\ badCategory)
                    => lastCall'.err = "ErrInvalidProductCategory"
              /\ (~badID /\ ~badName /\ ~badCategory /\ badPrice)
                    => lastCall'.err = "ErrInvalidBasePrice"
              /\ (badID \/ badName \/ badCategory \/ badPrice)
                    => prod' = NoProduct
     /\ BuiltByNewProduct(prod') =>
          /\ TrimSpace(prod'.id) # <<>>
          /\ TrimSpace(prod'.name) # <<>>
          /\ TrimSpace(prod'.category) # <<>>
          /\ prod'.basePrice.num > 0 /\ prod'.basePrice.den > 0]_vars

C18_Witness ==
  /\ BuiltByNewProduct(prod)
  /\ calls = 2
  /\ lastCall.op = "Update"
  /\ lastCall.err = "ErrInvalidProductName"
  /\ prod.name = <<"b">>
  /\ prod.events[Len(prod.events)].type = "product.updated"

----------------------------------------------------------------------------
(* Properties of command sequences on a stored product (checked under      *)
(* SeededSpec)                                                             *)

\* the invocations of this run on product id that have returned
ReturnedOn(id) == {n \in DOMAIN results : results[n].id = id}

\* the last write to product id is that of a committed ApplyDiscount, and no
\* other invocation on id is in flight or committed after that one read
LastWasApplyDiscount(id) ==
  /\ \A c \in inflight : c.id # id
  /\ \E n \in ReturnedOn(id) :
       /\ results[n].op = "ApplyDiscount"
       /\ results[n].err = "nil" /\ results[n].tx
       /\ \A m \in ReturnedOn(id) \ {n} :
            /\ results[m].tx /\ results[m].err = "nil" => m \in results[n].before
            /\ m > n => results[m].err # "nil"

\* C15: after a successful ApplyDiscount command on a product, with any
\* percentage in (0,100] the command accepts, a RemoveDiscount command on
\* that product that follows with no command in between succeeds: it goes
\* on to commit, and its commit clears the stored discount and adds a
\* discount_removed row to the outbox.
C15_RemoveAfterApply ==
  [][/\ \A id \in DOMAIN products :
          (Started("RemoveDiscount", id) /\ LastWasApplyDiscount(id))
            => \E c \in inflight' : c.seq = issued'
     /\ \A c \in inflight :
          (/\ c \notin inflight'
           /\ c.op = "RemoveDiscount"
           /\ results'[c.seq].txErr = "nil")
            => /\ results'[c.seq].err = "nil"
               /\ ~products'[c.id].discount_percent.valid
               /\ outbox'[Len(outbox')].event_type = "product.discount_removed"
               /\ outbox'[Len(outbox')].aggregate_id = c.id]_vars

----------------------------------------------------------------------------
(* Properties of the Plan and of Committer.Apply (checked under PlanSpec)  *)

\* Committer.Apply has just been called on the plan
Applied == issued' = issued + 1

IsMutation(mut) == mut # NoMutation

\* C20: Add(nil) changes nothing; Mutations() is the sequence of non-nil
\* mutations added since the last Clear, in the order they were added;
\* Count() is their number; IsEmpty() holds exactly when Count() = 0; and
\* Clear empties the plan.
C20_PlanContents ==
  [][/\ (log' = Append(log, NoMutation)) => planMutations' = planMutations
     /\ Mutations(planMutations') = SelectSeq(log', IsMutation)
     /\ Count(planMutations') = Len(SelectSeq(log', IsMutation))
     /\ IsEmpty(planMutations') <=> (Count(planMutations') = 0)
     /\ (log' = <<>>) => Count(planMutations') = 0]_vars

C20_Witness ==
  /\ Len(log) = 3
  /\ log[1] # NoMutation
  /\ log[2] = NoMutation
  /\ log[3] # NoMutation /\ log[3] # log[1]
  /\ Count(planMutations) = 2
  /\ Mutations(planMutations) = <<log[1], log[3]>>

----------------------------------------------------------------------------
(* Properties of commands run one at a time and of the read path (checked  *)
(* under Spec and SeededSpec)                                              *)

\* the commands whose writes are visible
LandedCommands == {x[1] : x \in landed}

\* no invocation of the run so far started while another one that went on
\* to commit was in flight
OneAtATime ==
  \A n \in DOMAIN results :
    \A m \in LandedCommands : m < n => m \in results[n].before

\* the event type a command's outbox row carries
EventTypeOf(op) ==
  CASE op = "CreateProduct" -> "product.created"
    [] op = "UpdateProduct" -> "product.updated"
    [] op = "ActivateProduct" -> "product.activated"
    [] op = "DeactivateProduct" -> "product.deactivated"
    [] op = "ArchiveProduct" -> "product.archived"
    [] op = "ApplyDiscount" -> "product.discount_applied"
    [] op = "RemoveDiscount" -> "product.discount_removed"

\* C21: with commands run one at a time from the empty store, a committed
\* CreateProduct stores the product as draft with exactly one outbox row
\* for it (product.created, pending, aggregate_id the new id); every later
\* command that commits adds exactly one outbox row of its event type,
\* pending, for its product; an UpdateProduct with the stored values adds
\* none; and no step changes or removes an existing outbox row.
C21_OutboxPerCommand ==
  [][/\ Len(outbox') >= Len(outbox)
     /\ SubSeq(outbox', 1, Len(outbox)) = outbox
     /\ \A c \in inflight :
          (/\ c \notin inflight'
           /\ inflight = {c}
           /\ OneAtATime
           /\ LandedCommands \subseteq c.before
           /\ results'[c.seq].err = "nil")
          => /\ Len(outbox') = Len(outbox) + 1
             /\ outbox'[Len(outbox')].event_type = EventTypeOf(c.op)
             /\ outbox'[Len(outbox')].status = StatusPending
             /\ outbox'[Len(outbox')].aggregate_id = c.id
             /\ c.op = "CreateProduct" =>
                  /\ products'[c.id].status = ProductStatusDraft
                  /\ Cardinality({i \in DOMAIN outbox' :
                                    outbox'[i].aggregate_id = c.id}) = 1
     /\ \A id \in DOMAIN products :
          (/\ Started("UpdateProduct", id)
           /\ inflight = {}
           /\ OneAtATime
           /\ products[id].status # ProductStatusArchived
           /\ TrimSpace(StartedRequest.name) = products[id].name
           /\ TrimSpace(StartedRequest.description) = products[id].description
           /\ TrimSpace(StartedRequest.category) = products[id].category)
          => ReturnedAtOnce("nil")]_vars

C21_Witness ==
  /\ OneAtATime
  /\ inflight = {}
  /\ DOMAIN results = {1, 2, 3}
  /\ results[1].op = "CreateProduct" /\ results[1].err = "nil"
  /\ results[2].op = "UpdateProduct" /\ results[2].err = "nil" /\ results[2].tx
  /\ results[3].op = "UpdateProduct" /\ results[3].err = "nil" /\ ~results[3].tx
  /\ Len(outbox) = 2
  /\ outbox[1].event_type = "product.created"
  /\ outbox[2].event_type = "product.updated"

\* the instants at which the read path is asked
QueryInstants == 0 .. 10

\* C22: for every CreateProduct request with a positive base price n/d, a
\* GetProduct issued after the command commits returns BasePriceNumerator n
\* and BasePriceDenominator d, the pair supplied at creation, the name,
\* description and category supplied (trimmed, as NewProduct stores them)
\* and status draft.
C22_GetProductAfterCreate ==
  [][\A c \in inflight :
       (/\ c \notin inflight'
        /\ c.op = "CreateProduct"
        /\ results'[c.seq].err = "nil")
       => \A t \in QueryInstants :
            LET r == GetProduct(products', c.id, t)
            IN  /\ r.err = "nil"
                /\ r.response.BasePriceNumerator = c.req.numerator
                /\ r.response.BasePriceDenominator = c.req.denominator
                /\ r.response.Name = TrimSpace(c.req.name)
                /\ r.response.Description = TrimSpace(c.req.description)
                /\ r.response.Category = TrimSpace(c.req.category)
                /\ r.response.Status = ProductStatusDraft]_vars

\* C23: the read path agrees with the aggregate: once an ApplyDiscount
\* command with percentage p over [startDate, endDate) has committed,
\* GetProduct at instant t reports HasActiveDiscount = TRUE and an effective
\* price equal as a rational to basePrice x (1 - p/100) exactly when
\* startDate <= t < endDate, and otherwise HasActiveDiscount = FALSE and
\* the base price, for every percentage the command accepts.
C23_ReadPathAgrees ==
  [][\A c \in inflight :
       (/\ c \notin inflight'
        /\ c.op = "ApplyDiscount"
        /\ results'[c.seq].err = "nil")
       => \A t \in QueryInstants :
            LET r == GetProduct(products', c.id, t).response
                base == NewMoney(r.BasePriceNumerator, r.BasePriceDenominator)
                effective == NewMoney(r.EffectivePriceNumerator,
                                      r.EffectivePriceDenominator)
                valid == c.req.startDate <= t /\ t < c.req.endDate
            IN  /\ r.HasActiveDiscount = valid
                /\ effective = IF valid
                                 THEN MoneyApplyDiscount(base, c.req.percentage)
                                 ELSE base]_vars

----------------------------------------------------------------------------
(* Properties of the Money and Discount value objects (checked under       *)
(* ValueSpec)                                                              *)

\* 0 < percentage <= 100, by cross-multiplication
PercentageInRange(p) == p # NilRat /\ p.num > 0 /\ p.num <= 100 * p.den

\* C24: NewDiscount(percentage, start, end) succeeds if and only if
\* 0 < percentage <= 100 and end is strictly after start; it fails with
\* InvalidDiscountPercentage when the percentage is absent, <= 0 or > 100,
\* whatever the period, and with InvalidDiscountPeriod when the percentage
\* is in range and end is equal to or before start.
C24_NewDiscountValidation ==
  valueResult.op = "NewDiscount" =>
    LET pctOk == PercentageInRange(valueArgs.percentage)
        periodOk == valueArgs.endDate > valueArgs.startDate
    IN  /\ valueResult.err = "nil" <=> (pctOk /\ periodOk)
        /\ ~pctOk => valueResult.err = "ErrInvalidDiscountPercentage"
        /\ (pctOk /\ ~periodOk) => valueResult.err = "ErrInvalidDiscountPeriod"
        /\ valueResult.err = "nil" =>
             /\ valueResult.d.present
             /\ valueResult.d.percentage = valueArgs.percentage
             /\ valueResult.d.startDate = valueArgs.startDate
             /\ valueResult.d.endDate = valueArgs.endDate

C24_Witness ==
  /\ valueResult.op = "NewDiscount"
  /\ valueArgs.percentage = NewRat(101, 1)
  /\ valueArgs.endDate = valueArgs.startDate
  /\ valueResult.err = "ErrInvalidDiscountPercentage"

\* C25: Discount.IsValidAt(t) is true exactly when startDate <= t < endDate:
\* true at the start date and strictly between, false at the end date,
\* before the start date and after the end date.
C25_IsValidAtHalfOpen ==
  valueResult.op = "IsValidAt" =>
    /\ valueResult.valid <=>
         (valueArgs.startDate <= valueArgs.t /\ valueArgs.t < valueArgs.endDate)
    /\ valueArgs.t = valueArgs.startDate => valueResult.valid
    /\ valueArgs.t = valueArgs.endDate => ~valueResult.valid
    /\ valueArgs.t < valueArgs.startDate => ~valueResult.valid
    /\ valueArgs.t > valueArgs.endDate => ~valueResult.valid

C25_Witness ==
  /\ valueResult.op = "IsValidAt"
  /\ valueArgs.startDate = 0
  /\ valueArgs.endDate = 2
  /\ valueArgs.t = 0
  /\ valueResult.valid

\* C26: for all integers n, d # 0 and k # 0, NewMoney(n, d) equals
\* NewMoney(k*n, k*d): both are the same reduced fraction with a positive
\* denominator, whatever pair was supplied.
C26_MoneyEqualsScaled ==
  (/\ valueResult.op = "Equals"
   /\ valueArgs.denominator # 0
   /\ valueArgs.k # 0)
  => /\ valueResult.equal
     /\ valueResult.m = valueResult.other
     /\ valueResult.m.den > 0
     /\ Gcd(Abs(valueResult.m.num), valueResult.m.den) = 1
     /\ valueResult.m.num * valueArgs.denominator
          = valueArgs.numerator * valueResult.m.den

C26_Witness ==
  /\ valueResult.op = "Equals"
  /\ valueArgs.numerator = 10000
  /\ valueArgs.denominator = -100
  /\ valueArgs.k = -2
  /\ valueResult.equal
  /\ valueResult.m = [num |-> -100, den |-> 1]

\* C27: for every Money m and percentage p, m.ApplyDiscount(p) equals
\* m - m*p/100 as an exact rational (NewMoney(10000, 100).ApplyDiscount(25)
\* equals NewMoney(7500, 100)), and an absent percentage yields m.
C27_ApplyDiscountExact ==
  valueResult.op = "ApplyDiscount" =>
    LET m == valueResult.m
        p == valueArgs.percentage
        price == valueResult.price
    IN  /\ p = NilRat => Equals(price, m)
        /\ p # NilRat =>
             price = NewRat(m.num * (100 * p.den - p.num), m.den * p.den * 100)
        /\ (m = NewMoney(10000, 100) /\ p = NewRat(25, 1))
             => Equals(price, NewMoney(7500, 100))

C27_Witness ==
  /\ valueResult.op = "ApplyDiscount"
  /\ valueArgs.numerator = 1999
  /\ valueArgs.denominator = 100
  /\ valueArgs.percentage = NewRat(1, 2)
  /\ valueResult.price = [num |-> 397801, den |-> 20000]

----------------------------------------------------------------------------
(* Properties of the business methods' frame and events (checked under     *)
(* AggSpec)                                                                *)

\* the fields of name, description and category whose trimmed argument in
\* the Update call of this step differs from the product's current value
ChangedByUpdate ==
  (IF TrimSpace(lastCall'.name) # prod.name THEN {FieldName} ELSE {})
    \cup (IF TrimSpace(lastCall'.description) # prod.description
            THEN {FieldDescription} ELSE {})
    \cup (IF TrimSpace(lastCall'.category) # prod.category
            THEN {FieldCategory} ELSE {})

\* C28: a successful Update changes exactly those of name, description and
\* category whose trimmed new value differs from the current one, sets
\* them to the trimmed value, marks exactly those fields dirty and no
\* other, leaves id, base price, discount, status, createdAt and archivedAt
\* alone, and appends exactly one Updated event carrying the post-update
\* name, description and category if and only if at least one of the three
\* changed.
C28_UpdateFrame ==
  [][(Called("Update") /\ lastCall'.err = "nil") =>
       /\ prod'.name = TrimSpace(lastCall'.name)
       /\ prod'.description = TrimSpace(lastCall'.description)
       /\ prod'.category = TrimSpace(lastCall'.category)
       /\ (prod'.name # prod.name) <=> (FieldName \in ChangedByUpdate)
       /\ (prod'.description # prod.description)
            <=> (FieldDescription \in ChangedByUpdate)
       /\ (prod'.category # prod.category) <=> (FieldCategory \in ChangedByUpdate)
       /\ prod'.changes = prod.changes \cup ChangedByUpdate
       /\ prod'.id = prod.id
       /\ prod'.basePrice = prod.basePrice
       /\ prod'.discount = prod.discount
       /\ prod'.status = prod.status
       /\ prod'.createdAt = prod.createdAt
       /\ prod'.archivedAt = prod.archivedAt
       /\ IF ChangedByUpdate # {}
            THEN /\ AppendsOne(prod.events, prod'.events, "product.updated")
                 /\ prod'.events[Len(prod'.events)].name = prod'.name
                 /\ prod'.events[Len(prod'.events)].description = prod'.description
                 /\ prod'.events[Len(prod'.events)].category = prod'.category
            ELSE prod'.events = prod.events]_vars

C28_Witness ==
  /\ calls = 1
  /\ lastCall.op = "Update"
  /\ lastCall.err = "nil"
  /\ lastCall.name = <<"b">>
  /\ lastCall.description = <<"e">>
  /\ prod.name = <<"b">>
  /\ prod.description = <<"e">>
  /\ prod.changes = {FieldName, FieldDescription}
  /\ Len(prod.events) = 1
  /\ prod.events[1].type = "product.updated"
  /\ prod.events[1].name = <<"b">>

\* the six business methods
BusinessMethods ==
  {"Update", "Activate", "Deactivate", "Archive", "ApplyDiscount", "RemoveDiscount"}

\* the event variant a business method appends
EventTypeOfMethod(op) ==
  CASE op = "Update" -> "product.updated"
    [] op = "Activate" -> "product.activated"
    [] op = "Deactivate" -> "product.deactivated"
    [] op = "Archive" -> "product.archived"
    [] op = "ApplyDiscount" -> "product.discount_applied"
    [] op = "RemoveDiscount" -> "product.discount_removed"

\* C29: every business method call appends at most one event and leaves
\* the events already pending in place and in order; a successful call
\* that changes the product appends exactly one, of the variant matching
\* the method, with AggregateID the product id and OccurredAt the now of
\* the call; a call that fails or changes nothing appends none.
C29_OneEventPerCall ==
  [][\A op \in BusinessMethods :
       Called(op) =>
         /\ Len(prod'.events) <= Len(prod.events) + 1
         /\ SubSeq(prod'.events, 1, Len(prod.events)) = prod.events
         /\ IF lastCall'.err = "nil" /\ prod' # prod
              THEN /\ AppendsOne(prod.events, prod'.events, EventTypeOfMethod(op))
                   /\ prod'.events[Len(prod'.events)].aggregateID = prod.id
                   /\ prod'.events[Len(prod'.events)].occurredAt = lastCall'.now
              ELSE prod'.events = prod.events]_vars

C29_Witness ==
  /\ calls = 2
  /\ lastCall.op = "ApplyDiscount"
  /\ lastCall.err = "nil"
  /\ lastCall.now = 1
  /\ Len(prod.events) = 3
  /\ prod.events[1].type = "product.created"
  /\ prod.events[2].type = "product.activated"
  /\ prod.events[2].occurredAt = 2
  /\ prod.events[3].type = "product.discount_applied"
  /\ prod.events[3].occurredAt = 1
  /\ prod.events[3].aggregateID = prod.id

\* C30 as stated: after every successful call of Update, Activate,
\* Deactivate, Archive, ApplyDiscount or RemoveDiscount, updatedAt equals
\* the now passed to that call.
C30_UpdatedAtEveryCall ==
  [][\A op \in BusinessMethods :
       (Called(op) /\ lastCall'.err = "nil")
         => prod'.updatedAt = lastCall'.now]_vars

\* C30: after every successful call of Activate, Deactivate, Archive,
\* ApplyDiscount or RemoveDiscount, and after every successful Update that
\* changes at least one of name, description and category, updatedAt
\* equals the now passed to that call; a successful Update that changes
\* none of the three leaves updatedAt as it was.
C30_UpdatedAtOnChange ==
  [][\A op \in BusinessMethods :
       (Called(op) /\ lastCall'.err = "nil")
         => IF op = "Update" /\ ChangedByUpdate = {}
              THEN prod'.updatedAt = prod.updatedAt
              ELSE prod'.updatedAt = lastCall'.now]_vars

C30_Witness ==
  /\ calls = 2
  /\ lastCall.op = "Update"
  /\ lastCall.err = "nil"
  /\ lastCall.now = 2
  /\ TrimSpace(lastCall.name) = prod.name
  /\ prod.updatedAt = 1
  /\ Len(prod.events) = 1
  /\ prod.events[1].type = "product.deactivated"
  /\ prod.events[1].occurredAt = 1

----------------------------------------------------------------------------
(* Properties of construction, hydration and discount replacement (checked *)
(* under AggSpec)                                                          *)

\* the fields the change tracker knows
TrackedFields ==
  {FieldName, FieldDescription, FieldCategory, FieldBasePrice, FieldDiscount,
   FieldStatus}

\* C31: a product returned by NewProduct has every tracked field marked
\* dirty: name, description, category, base_price, discount and status.
C31_NewProductAllDirty ==
  [][(CalledNewProduct /\ lastCall'.err = "nil")
       => prod'.changes = TrackedFields]_vars

\* C32 (checked under ValueSpec): ReconstructProduct returns a product with
\* no dirty field and an empty pending-event queue whose fields equal the
\* supplied arguments, whatever they are: a blank id, name or category, a
\* price that is not positive and any status are taken as they come.
C32_ReconstructProduct ==
  valueResult.op = "ReconstructProduct" =>
    /\ valueResult.p.changes = {}
    /\ valueResult.p.events = <<>>
    /\ valueResult.p.id = valueArgs.id
    /\ valueResult.p.name = valueArgs.name
    /\ valueResult.p.description = valueArgs.description
    /\ valueResult.p.category = valueArgs.category
    /\ valueResult.p.basePrice = valueArgs.basePrice
    /\ valueResult.p.discount = valueArgs.discount
    /\ valueResult.p.status = valueArgs.status
    /\ valueResult.p.createdAt = valueArgs.createdAt
    /\ valueResult.p.updatedAt = valueArgs.updatedAt
    /\ valueResult.p.archivedAt = valueArgs.archivedAt

C32_Witness ==
  /\ valueResult.op = "ReconstructProduct"
  /\ valueArgs.id = <<>>
  /\ valueArgs.name = <<" ", "a">>
  /\ valueArgs.basePrice = NewMoney(0, 1)
  /\ valueArgs.status = ProductStatusArchived
  /\ valueArgs.archivedAt = NoTime
  /\ valueResult.p.name = <<" ", "a">>
  /\ valueResult.p.changes = {}

\* C33: ApplyDiscount on an Active product that already has a discount
\* replaces it: after a successful ApplyDiscount(d2, now) the product's
\* discount is d2, and at every instant EffectivePrice is the base price
\* reduced by d2's percentage inside d2's period and the base price
\* outside it, whatever the previous discount was.
C33_ApplyDiscountReplaces ==
  [][(/\ Called("ApplyDiscount")
      /\ lastCall'.err = "nil"
      /\ prod.discount.present)
     => /\ prod'.discount = lastCall'.discount
        /\ \A t \in Times :
             EffectivePrice(prod', t) =
               IF lastCall'.discount.startDate <= t
                    /\ t < lastCall'.discount.endDate
               THEN ReducedBy(prod.basePrice, lastCall'.discount.percentage)
               ELSE prod.basePrice]_vars

C33_Witness ==
  /\ calls = 2
  /\ lastCall.op = "ApplyDiscount"
  /\ lastCall.err = "nil"
  /\ Len(prod.events) = 2
  /\ prod.events[1].type = "product.discount_applied"
  /\ prod.events[1].discountPercentage = NewRat(20, 1)
  /\ prod.events[2].type = "product.discount_applied"
  /\ prod.discount = NewDiscount(TRUE, NewRat(25, 2), 1, 2).d
  /\ EffectivePrice(prod, 0) = prod.basePrice
  /\ EffectivePrice(prod, 1) = NewRat(175, 2)

----------------------------------------------------------------------------
(* Properties of the repository's partial update (checked under AggSpec)   *)

\* the columns that hold tracked field f
ColumnsOf(f) ==
  CASE f = FieldName -> {"name"}
    [] f = FieldDescription -> {"description"}
    [] f = FieldCategory -> {"category"}
    [] f = FieldBasePrice -> {"base_price_numerator", "base_price_denominator"}
    [] f = FieldDiscount ->
         {"discount_percent", "discount_start_date", "discount_end_date"}
    [] f = FieldStatus -> {"status"}

\* C34: ProductRepo.UpdateMut returns no mutation if and only if the
\* product has no dirty field; otherwise the mutation is an update of the
\* products table that writes the row key, updated_at and exactly the
\* columns of the dirty fields, plus archived_at when status is dirty and
\* the product is archived, and no column of a clean field.
C34_UpdateMutColumns ==
  /\ prod # NoProduct =>
       LET mut == UpdateMut(prod)
       IN  /\ mut = NoMutation <=> prod.changes = {}
           /\ mut # NoMutation =>
                /\ mut.op = "update"
                /\ mut.table = ProductsTable
                /\ mut.cols.product_id = prod.id
                /\ mut.cols.updated_at = prod.updatedAt
                /\ DOMAIN mut.cols =
                     {"product_id", "updated_at"}
                       \cup UNION {ColumnsOf(f) : f \in prod.changes}
                       \cup (IF FieldStatus \in prod.changes
                                  /\ prod.status = ProductStatusArchived
                               THEN {"archived_at"} ELSE {})
                /\ \A f \in TrackedFields \ prod.changes :
                     ColumnsOf(f) \cap DOMAIN mut.cols = {}

C34_Witness ==
  /\ calls = 2
  /\ prod.changes = {FieldName, FieldStatus}
  /\ prod.status = ProductStatusArchived
  /\ DOMAIN UpdateMut(prod).cols =
       {"product_id", "updated_at", "name", "status", "archived_at"}
  /\ UpdateMut(prod).cols.name = <<"b">>

----------------------------------------------------------------------------
(* Properties of the command use cases' transactions (checked under Spec)  *)

\* what the aggregate method of command op returns on the aggregate loaded
\* from the store as it is now: the error of the load, of NewDiscount or of
\* the method, and the aggregate after the call
MethodOutcome(op, id, req, seq) ==
  LET now == Now(seq)
      found == FindByID(products, id)
      made == IF op = "ApplyDiscount"
                THEN NewDiscount(TRUE,
                       NewRat(Trunc(NewRat(req.percentage.num * 100,
                                           req.percentage.den)), 100),
                       req.startDate, req.endDate)
                ELSE [d |-> NoDiscount, err |-> "nil"]
      done ==
        CASE op = "CreateProduct" ->
               NewProduct(id, req.name, req.description, req.category, TRUE,
                          NewMoney(req.numerator, req.denominator), now)
          [] op = "UpdateProduct" ->
               Update(found.p, req.name, req.description, req.category, now)
          [] op = "ActivateProduct" -> Activate(found.p, now)
          [] op = "DeactivateProduct" -> Deactivate(found.p, now)
          [] op = "ArchiveProduct" -> Archive(found.p, now)
          [] op = "ApplyDiscount" -> ApplyDiscount(found.p, made.d, now)
          [] op = "RemoveDiscount" -> RemoveDiscount(found.p, now)
  IN  IF op # "CreateProduct" /\ found.err # "nil"
        THEN [err |-> found.err, p |-> NoProduct]
      ELSE IF made.err # "nil" THEN [err |-> made.err, p |-> NoProduct]
      ELSE done

Commands ==
  {"CreateProduct", "UpdateProduct", "ActivateProduct", "DeactivateProduct",
   "ArchiveProduct", "ApplyDiscount", "RemoveDiscount"}

\* the mutations of plan for the products table
ProductMutations(plan) ==
  SelectSeq(Mutations(plan), LAMBDA m : m.table = ProductsTable)

\* C35: each command invocation works on one aggregate and reaches
\* Committer.Apply at most once.  It goes on to Apply, with a plan whose
\* only products mutation is for its own id, exactly when the aggregate
\* method succeeded and left a dirty field or an event, and Apply then
\* opens exactly one transaction; it returns at once without a transaction
\* and without a write when the load or the method failed, with that
\* error, and when the method changed nothing, which only UpdateProduct
\* can do, with success.  What an invocation returned is final: after a
\* failed commit it is not in flight again and its result does not change.
C35_OneTransactionPerCommand ==
  [][/\ \A n \in DOMAIN results :
          /\ n \in DOMAIN results' /\ results'[n] = results[n]
          /\ \A c \in inflight' : c.seq # n
     /\ \A c \in inflight :
          c \notin inflight' =>
            /\ results'[c.seq].tx
            /\ results'[c.seq].err = results'[c.seq].txErr
            /\ results'[c.seq].err # "nil" =>
                 products' = products /\ outbox' = outbox
     /\ \A op \in Commands, id \in Targets \cup {ProductIdOf(issued + 1)} :
          Started(op, id) =>
            LET r == MethodOutcome(op, id, StartedRequest, issued')
                changed == r.p.changes # {} \/ r.p.events # <<>>
            IN  IF r.err # "nil" THEN ReturnedAtOnce(r.err)
                ELSE IF ~changed
                  THEN ReturnedAtOnce("nil") /\ op = "UpdateProduct"
                ELSE \E c \in inflight' \ inflight :
                       /\ c.seq = issued'
                       /\ ~IsEmpty(c.plan)
                       /\ Len(ProductMutations(c.plan)) = 1
                       /\ ProductMutations(c.plan)[1].cols.product_id = id
                       /\ products' = products /\ outbox' = outbox]_vars

C35_Witness ==
  /\ inflight = {}
  /\ DOMAIN results = {1, 2, 3}
  /\ results[1].op = "CreateProduct" /\ results[1].tx /\ results[1].err = "nil"
  /\ results[2].op = "UpdateProduct" /\ results[2].tx
  /\ results[2].err = "Unavailable"
  /\ results[3].op = "UpdateProduct" /\ ~results[3].tx /\ results[3].err = "nil"
  /\ Len(outbox) = 1

----------------------------------------------------------------------------
(* Properties of dirty fields against pending events (checked under        *)
(* AggSpec)                                                                *)

\* the mutations of plan for the outbox table
OutboxMutations(plan) ==
  SelectSeq(Mutations(plan), LAMBDA m : m.table = OutboxTable)

\* C36: for a product obtained from ReconstructProduct, after any sequence
\* of business method calls, the set of dirty fields is non-empty if and
\* only if the pending-event queue is non-empty; hence the plan built from
\* UpdateMut and the pending events holds a products mutation if and only
\* if it holds at least one outbox mutation.
C36_DirtyIffEvents ==
  (prod # NoProduct /\ ~BuiltByNewProduct(prod)) =>
    LET plan == BuildPlan(UpdateMut(prod), prod, 1, 0)
    IN  /\ prod.changes # {} <=> prod.events # <<>>
        /\ ProductMutations(plan) # <<>> <=> OutboxMutations(plan) # <<>>
        /\ Len(OutboxMutations(plan)) = Len(prod.events)
        /\ Len(ProductMutations(plan)) <= 1

C36_Witness ==
  /\ ~BuiltByNewProduct(prod)
  /\ calls = 2
  /\ lastCall.op = "Update"
  /\ lastCall.err = "nil"
  /\ prod.changes = {FieldStatus}
  /\ Len(prod.events) = 1
  /\ prod.events[1].type = "product.activated"
  /\ Len(ProductMutations(BuildPlan(UpdateMut(prod), prod, 1, 0))) = 1
  /\ Len(OutboxMutations(BuildPlan(UpdateMut(prod), prod, 1, 0))) = 1

----------------------------------------------------------------------------
(* Properties of the store under concurrent commands (checked under Spec)  *)

\* C37: at the store, once a product row's status is archived, no later
\* committed command changes that row's status, for every interleaving of
\* concurrent commands on the same id.
C37_ArchivedRowTerminal ==
  [][\A id \in DOMAIN products :
       products[id].status = ProductStatusArchived
         => products'[id].status = ProductStatusArchived]_vars

\* the outbox event types of product id, in commit order
TraceOf(id) ==
  LET rows == SelectSeq(outbox, LAMBDA r : r.aggregate_id = id)
  IN  [i \in DOMAIN rows |-> rows[i].event_type]

NotCreated == [status |-> "none", discount |-> FALSE, ok |-> TRUE]

\* the lifecycle state machine fed with one event: the state after it, with
\* ok = FALSE once an event came that the state machine does not accept
Step(st, e) ==
  LET live == st.status \in {ProductStatusDraft, ProductStatusActive,
                             ProductStatusInactive}
      accepted ==
        CASE e = "product.created" -> st.status = "none"
          [] e = "product.updated" -> live
          [] e = "product.activated" ->
               st.status \in {ProductStatusDraft, ProductStatusInactive}
          [] e = "product.deactivated" -> st.status = ProductStatusActive
          [] e = "product.archived" -> live
          [] e = "product.discount_applied" -> st.status = ProductStatusActive
          [] e = "product.discount_removed" -> live /\ st.discount
      status ==
        CASE e = "product.created" -> ProductStatusDraft
          [] e = "product.activated" -> ProductStatusActive
          [] e = "product.deactivated" -> ProductStatusInactive
          [] e = "product.archived" -> ProductStatusArchived
          [] OTHER -> st.status
      discount ==
        CASE e = "product.discount_applied" -> TRUE
          [] e = "product.discount_removed" -> FALSE
          [] OTHER -> st.discount
  IN  [status |-> status, discount |-> discount, ok |-> st.ok /\ accepted]

RECURSIVE Replay(_, _)
Replay(trace, i) ==
  IF i = 0 THEN NotCreated ELSE Step(Replay(trace, i - 1), trace[i])

\* C38: for every product id, the outbox events of that id in commit order
\* form a trace the lifecycle state machine accepts (first created;
\* activated only from Draft or Inactive; deactivated and discount_applied
\* only while Active; discount_removed only while a discount is present;
\* nothing after archived), and the stored row has the status and the
\* discount reached by replaying that trace, for every interleaving of
\* concurrent commands on the same id.
C38_OutboxTraceAccepted ==
  \A id \in DOMAIN products :
    LET st == Replay(TraceOf(id), Len(TraceOf(id)))
    IN  /\ st.ok
        /\ products[id].status = st.status
        /\ products[id].discount_percent.valid = st.discount

----------------------------------------------------------------------------
(* Properties of the business methods' frame and of the effective price   *)
(* (checked under AggSpec)                                                 *)

\* the parts of the product a call of business method op may change
MayChange(op) ==
  {"updatedAt", "changes", "events"} \cup
    CASE op \in {"Activate", "Deactivate"} -> {"status"}
      [] op = "Archive" -> {"status", "archivedAt"}
      [] op \in {"ApplyDiscount", "RemoveDiscount"} -> {"discount"}
      [] op = "Update" -> {"name", "description", "category"}

\* the field a call of business method op may mark dirty, Update apart
MayMark(op) ==
  IF op \in {"Activate", "Deactivate", "Archive"} THEN {FieldStatus}
  ELSE {FieldDiscount}

\* C39: Activate, Deactivate and Archive change only status and updatedAt
\* (Archive also archivedAt) and mark only the status field dirty;
\* ApplyDiscount and RemoveDiscount change only discount and updatedAt and
\* mark only the discount field dirty, so deactivating or archiving a
\* product keeps its discount; and no business method changes id,
\* createdAt or basePrice.
C39_BusinessMethodFrame ==
  [][\A op \in BusinessMethods :
       Called(op) =>
         /\ \A f \in DOMAIN prod \ MayChange(op) : prod'[f] = prod[f]
         /\ op # "Update" =>
              /\ prod.changes \subseteq prod'.changes
              /\ prod'.changes \subseteq prod.changes \cup MayMark(op)
         /\ op \in {"Deactivate", "Archive"} => prod'.discount = prod.discount
         /\ prod'.id = prod.id
         /\ prod'.createdAt = prod.createdAt
         /\ prod'.basePrice = prod.basePrice]_vars

C39_Witness ==
  /\ calls = 2
  /\ lastCall.op = "Deactivate"
  /\ lastCall.err = "nil"
  /\ prod.status = ProductStatusInactive
  /\ prod.discount = NewDiscount(TRUE, NewRat(25, 2), 1, 2).d
  /\ prod.changes = {FieldDiscount, FieldStatus}
  /\ Len(prod.events) = 2
  /\ prod.events[1].type = "product.discount_applied"
  /\ prod.events[2].type = "product.deactivated"

\* C40: for every product reachable through NewProduct and business
\* methods (and every product rebuilt from a stored row) and every instant
\* t, 0 <= EffectivePrice(t) <= basePrice; EffectivePrice(t) is strictly
\* below basePrice exactly when a discount is present and valid at t, and
\* it is 0 only under a 100% discount valid at t.
C40_EffectivePriceBounds ==
  prod # NoProduct =>
    \A t \in Times :
      LET price == EffectivePrice(prod, t)
          valid == /\ prod.discount.present
                   /\ prod.discount.startDate <= t
                   /\ t < prod.discount.endDate
      IN  /\ price.den > 0
          /\ price.num >= 0
          /\ RatCmp(price, prod.basePrice) <= 0
          /\ RatCmp(price, prod.basePrice) < 0 <=> valid
          /\ price.num = 0 =>
               valid /\ prod.discount.percentage = NewRat(100, 1)

C40_Witness ==
  /\ BuiltByNewProduct(prod)
  /\ calls = 2
  /\ lastCall.op = "ApplyDiscount"
  /\ lastCall.err = "nil"
  /\ prod.discount.percentage = NewRat(100, 1)
  /\ EffectivePrice(prod, 0) = NewRat(0, 1)
  /\ EffectivePrice(prod, 1) = prod.basePrice

====
